---- MODULE Spec2Model ----
(***************************************************************************)
(* paperflow: the LLM response pipeline of src/paperflow/classifier.py.    *)
(*                                                                         *)
(* Classifier.process(paper) runs two stages, summarize then classify.     *)
(* Each stage is one invocation of _call_llm_with_parse: a for-loop of at  *)
(* most max_retries attempts, each attempt one gateway call followed by    *)
(* extraction, JSON decoding and schema validation, with an exponential    *)
(* backoff sleep between attempts.  classify() then reconciles the         *)
(* collection names of the validated record against the configured         *)
(* collections.                                                            *)
(*                                                                         *)
(* Text is modelled as a sequence of one-character strings, so that        *)
(* str.lower(), the substring test and the regular expressions of          *)
(* _extract_json are computed character by character.                      *)
(***************************************************************************)
EXTENDS Integers, Sequences, FiniteSets, TLC

VARIABLES
    collections,     \* self.collections: the configured collection names, in order
    max_retries,     \* self.llm_config.max_retries
    pc,              \* position of process(): "idle", "call", "sleep", "done"
    stage,           \* the stage whose _call_llm_with_parse is running
    attempt,         \* loop variable of _call_llm_with_parse
    wait_time,       \* argument of the pending asyncio.sleep
    errors,          \* kinds of the errors caught so far by the running stage
    calls,           \* gateway calls issued, per stage
    sleeps,          \* backoff delays slept, per stage, in order
    summary,         \* the PaperSummary returned by summarize(), or None
    validated,       \* the Classification returned by _call_llm_with_parse, or None
    outcome,         \* how process() ended: "none", "returned", "ClassifierError", "TypeError"
    raised_in,       \* the stage an exception escaped from, or "none"
    result,          \* the value process() returned, or None
    last_error,      \* last_error of the running _call_llm_with_parse, or None
    failure,         \* the exception that left the stage, or None
    sent,            \* the PaperSummary a reply was written from, its fence tag and layout
    reply,           \* the text handed to _parse_response
    json_str,        \* what _extract_json returned, or None
    parsed,          \* what _parse_response produced, or None
    xpc,             \* position of _parse_response: "idle", "reply", "parsed"
    target,          \* the model argument of one loop iteration, taken alone
    content,         \* what _call_llm_once produced in that iteration
    tried,           \* how the iteration's try body ended, or None
    routing,         \* self.llm_config.routing
    payload,         \* the request body _call_llm_once posted, or None
    http,            \* what client.post did, or None
    call_result,     \* how _call_llm_once ended, or None
    mode,            \* who runs the batch: "cli" (process command) or "daemon" (run_once)
    inbox,           \* the library items get_inbox_items returns, by item key
    batch_size,      \* config.processing.batch_size
    dry_run,         \* config.processing.dry_run
    add_summary_note, \* config.processing.add_summary_note
    running,         \* Daemon.running
    lpc,             \* position of the batch: "idle", "loop", "await", "returned", "raised", "crashed"
    batch,           \* the item keys of the running batch, in order
    cur,             \* how many items of the batch the for loop has taken
    results,         \* the ProcessingResult list of the running batch
    proc,            \* per item key, where its classifier.process() call stands
    in_flight,       \* item keys whose process() has a gateway request outstanding
    downloaded,      \* item keys whose PDF the running batch has asked for
    writes,          \* the Zotero write calls that succeeded
    pid_file,        \* the PID file: whether it exists, and its text
    interval,        \* Daemon.interval
    daemons,         \* per daemon process: position of run(), self.running, wait ticks
    cache,           \* the cache directory: per cache key, the text of its file
    pdf_bytes,       \* the pdf_bytes argument of the running PDFParser.parse
    cache_key,       \* its cache_key argument
    opened,          \* whether that call has run _parse_pdf
    returned         \* how that call ended, or None

procvars == <<collections, max_retries, pc, stage, attempt, wait_time, errors, calls,
              sleeps, summary, validated, outcome, raised_in, result, last_error,
              failure>>

textvars == <<sent, reply, json_str, parsed, xpc>>

attemptvars == <<target, content, tried>>

gatewayvars == <<routing, payload, http, call_result>>

batchvars == <<mode, inbox, batch_size, dry_run, add_summary_note, running, lpc,
               batch, cur, results, proc, in_flight, downloaded, writes>>

daemonvars == <<pid_file, interval, daemons>>

parservars == <<cache, pdf_bytes, cache_key, opened, returned>>

vars == <<procvars, textvars, attemptvars, gatewayvars, batchvars, daemonvars, parservars>>

-----------------------------------------------------------------------------
(* Bounds of the model *)

MaxRetriesBound == 4      \* max_retries ranges over 1..MaxRetriesBound
MaxCatalog == 2           \* configured collections: at most this many entries
MaxModelCols == 2         \* collections named by one model response
MaxKeyPoints == 2         \* key_points of a written PaperSummary: 1..MaxKeyPoints entries

None == [none |-> TRUE]

Stages == {"summarize", "classify"}

BoundedSeq(S, n) == UNION {[1..k -> S] : k \in 0..n}

-----------------------------------------------------------------------------
(* Text helpers: str.lower() and the substring test (needle in hay) *)

UpperCase == <<"A", "B", "C", "D", "E", "F", "G", "H", "I", "J", "K", "L", "M",
               "N", "O", "P", "Q", "R", "S", "T", "U", "V", "W", "X", "Y", "Z">>
LowerCase == <<"a", "b", "c", "d", "e", "f", "g", "h", "i", "j", "k", "l", "m",
               "n", "o", "p", "q", "r", "s", "t", "u", "v", "w", "x", "y", "z">>

LowerChar(c) ==
    IF \E i \in DOMAIN UpperCase : UpperCase[i] = c
    THEN LowerCase[CHOOSE i \in DOMAIN UpperCase : UpperCase[i] = c]
    ELSE c

Lower(s) == [i \in 1..Len(s) |-> LowerChar(s[i])]

Contains(needle, hay) ==
    \E i \in 0..(Len(hay) - Len(needle)) : SubSeq(hay, i + 1, i + Len(needle)) = needle

-----------------------------------------------------------------------------
(* Names *)

N_ML == <<"M", "L">>
N_ml == <<"m", "l">>
N_ReviewLater == <<"R", "e", "v", "i", "e", "w", " ", "L", "a", "t", "e", "r">>
N_PREVIEWS == <<"P", "R", "E", "V", "I", "E", "W", "S">>
Unknown == <<"U", "n", "k", "n", "o", "w", "n">>
review == <<"r", "e", "v", "i", "e", "w">>

CatalogNames == {N_ML, N_ReviewLater, N_PREVIEWS}
ModelNames == {N_ML, N_ml, Unknown}

-----------------------------------------------------------------------------
(* Character classes of the regular expressions and of json.loads, over the
   characters the model uses *)

Range(f) == {f[i] : i \in DOMAIN f}

Letters == Range(UpperCase) \cup Range(LowerCase)
Digits == {"0", "1", "2", "3", "4", "5", "6", "7", "8", "9"}

\* \w, \s and the control characters [\x00-\x1f\x7f-\x9f]
WordChars == Letters \cup Digits \cup {"_"}
WS == {" ", "\t", "\n", "\r"}
ControlChars == {"\t", "\n", "\r"}

\* the backquote character, which a TLA+ string cannot hold
Backtick == "BACKTICK"

Fence == <<Backtick, Backtick, Backtick>>
JsonTag == <<"j", "s", "o", "n">>

\* the least j >= i whose character is not in C (Len(s) + 1 when there is none)
RECURSIVE SkipWhile(_, _, _)
SkipWhile(s, i, C) ==
    IF i <= Len(s) /\ s[i] \in C THEN SkipWhile(s, i + 1, C) ELSE i

StartsAt(s, i, pat) ==
    /\ i >= 1
    /\ i + Len(pat) - 1 <= Len(s)
    /\ \A k \in 1..Len(pat) : s[i + k - 1] = pat[k]

Min(S) == CHOOSE x \in S : \A y \in S : x <= y
Max(S) == CHOOSE x \in S : \A y \in S : x >= y

\* the least i >= from where pat starts, or 0
Find(s, from, pat) ==
    LET S == {i \in from..(Len(s) - Len(pat) + 1) : StartsAt(s, i, pat)} IN
    IF S = {} THEN 0 ELSE Min(S)

\* str.strip()
RECURSIVE SkipBack(_, _)
SkipBack(s, i) == IF i >= 1 /\ s[i] \in WS THEN SkipBack(s, i - 1) ELSE i

Strip(s) == SubSeq(s, SkipWhile(s, 1, WS), SkipBack(s, Len(s)))

-----------------------------------------------------------------------------
(* _extract_json, pass by pass *)

NoMatch == [ok |-> FALSE, next |-> 0, repl |-> <<>>]
Match(n, r) == [ok |-> TRUE, next |-> n, repl |-> r]

\* (.*?)\n? and the closing fence: the least e >= q with the closing fence at e,
\* or a newline at e followed by the closing fence; 0 when there is no closing fence
FenceEnd(s, q) ==
    LET S == {e \in q..Len(s) :
                StartsAt(s, e, Fence) \/ (s[e] = "\n" /\ StartsAt(s, e + 1, Fence))}
    IN  IF S = {} THEN 0 ELSE Min(S)

\* the position after the opening fence and (?:json)? ; the mutant knows no tag
AfterFenceTag_NoTag(s, i) == i + Len(Fence)

AfterFenceTag(s, i) ==
    IF StartsAt(s, i + Len(Fence), JsonTag)
    THEN i + Len(Fence) + Len(JsonTag)
    ELSE i + Len(Fence)

\* re.search of FENCE(?:json)?\s*\n?(.*?)\n?FENCE with re.DOTALL: group(1),
\* where FENCE is three backquotes
FenceMatch(s) ==
    LET i == Find(s, 1, Fence) IN
    IF i = 0 THEN [found |-> FALSE, group |-> <<>>]
    ELSE LET q == SkipWhile(s, AfterFenceTag(s, i), WS)
             e == FenceEnd(s, q)
         IN  IF e = 0 THEN [found |-> FALSE, group |-> <<>>]
             ELSE [found |-> TRUE, group |-> SubSeq(s, q, e - 1)]

\* the greatest i with s[i] = c, or 0
FindLast(s, c) ==
    LET S == {i \in 1..Len(s) : s[i] = c} IN
    IF S = {} THEN 0 ELSE Max(S)

\* re.search of \{.*\} with re.DOTALL: group(0), or the whole response
BraceMatch(s) ==
    LET a == Find(s, 1, <<"{">>)
        b == FindLast(s, "}")
    IN  IF a # 0 /\ b > a THEN SubSeq(s, a, b) ELSE s

\* re.sub of ^\{\s*\{ by one opening brace
DoubleOpen(s) ==
    IF Len(s) >= 1 /\ s[1] = "{"
    THEN LET j == SkipWhile(s, 2, WS) IN
         IF j <= Len(s) /\ s[j] = "{" THEN SubSeq(s, j, Len(s)) ELSE s
    ELSE s

\* re.sub of \}\s*\}$ by one closing brace
DoubleClose(s) ==
    IF Len(s) >= 2 /\ s[Len(s)] = "}"
    THEN LET i == SkipBack(s, Len(s) - 1) IN
         IF i >= 1 /\ s[i] = "}" THEN SubSeq(s, 1, i) ELSE s
    ELSE s

\* ,\s*([}\]])  ->  \1
TrailingComma(s, i) ==
    IF s[i] # "," THEN NoMatch
    ELSE LET j == SkipWhile(s, i + 1, WS) IN
         IF j <= Len(s) /\ s[j] \in {"}", "]"} THEN Match(j + 1, <<s[j]>>) ELSE NoMatch

\* (\{|,)\s*(\w+)\s*:  ->  group 1, then group 2 in double quotes, then a colon
UnquotedKey(s, i) ==
    IF s[i] \notin {"{", ","} THEN NoMatch
    ELSE LET j == SkipWhile(s, i + 1, WS)
             k == SkipWhile(s, j, WordChars)
             m == SkipWhile(s, k, WS)
         IN  IF k > j /\ m <= Len(s) /\ s[m] = ":"
             THEN Match(m + 1, <<s[i], "\"">> \o SubSeq(s, j, k - 1) \o <<"\"", ":">>)
             ELSE NoMatch

\* :\s*'([^']*)'  ->  colon, space, then group 1 in double quotes
SingleQuotedValue(s, i) ==
    IF s[i] # ":" THEN NoMatch
    ELSE LET j == SkipWhile(s, i + 1, WS)
             k == Find(s, j + 1, <<"'">>)
         IN  IF j <= Len(s) /\ s[j] = "'" /\ k # 0
             THEN Match(k + 1, <<":", " ", "\"">> \o SubSeq(s, j + 1, k - 1) \o <<"\"">>)
             ELSE NoMatch

\* \[\s*'([^']*)'  ->  bracket, then group 1 in double quotes
SingleQuotedFirstItem(s, i) ==
    IF s[i] # "[" THEN NoMatch
    ELSE LET j == SkipWhile(s, i + 1, WS)
             k == Find(s, j + 1, <<"'">>)
         IN  IF j <= Len(s) /\ s[j] = "'" /\ k # 0
             THEN Match(k + 1, <<"[", "\"">> \o SubSeq(s, j + 1, k - 1) \o <<"\"">>)
             ELSE NoMatch

\* ',\s*'  ->  double quote, comma, space, double quote
SingleQuotedSeparator(s, i) ==
    IF s[i] # "'" \/ i + 1 > Len(s) \/ s[i + 1] # "," THEN NoMatch
    ELSE LET j == SkipWhile(s, i + 2, WS) IN
         IF j <= Len(s) /\ s[j] = "'" THEN Match(j + 1, <<"\"", ",", " ", "\"">>)
         ELSE NoMatch

\* '\s*\]  ->  double quote, bracket
SingleQuotedLastItem(s, i) ==
    IF s[i] # "'" THEN NoMatch
    ELSE LET j == SkipWhile(s, i + 1, WS) IN
         IF j <= Len(s) /\ s[j] = "]" THEN Match(j + 1, <<"\"", "]">>) ELSE NoMatch

\* the first of the backslashes that run up to position k - 1, not before lo
RECURSIVE RunStart(_, _, _)
RunStart(s, k, lo) ==
    IF k - 1 >= lo /\ s[k - 1] = "\\" THEN RunStart(s, k - 1, lo) ELSE k

\* in a string body starting at lo, s[k] is the second character of a
\* backslash pair: an odd number of backslashes runs up to it
Escaped(s, k, lo) == (k - RunStart(s, k, lo)) % 2 = 1

\* the unescaped double quotes of a string body starting at lo
Closers(s, lo) == {k \in lo..Len(s) : s[k] = "\"" /\ ~Escaped(s, k, lo)}

\* the body and closing quote of the string pattern (see StringNewlines) from
\* position lo: the position of the closing quote, or 0.  The body is a run of
\* characters other than quote and backslash and of pairs of a backslash and
\* any character but a newline (without re.DOTALL the dot matches no newline).
StringEnd(s, lo) ==
    IF Closers(s, lo) = {} THEN 0
    ELSE LET c == Min(Closers(s, lo)) IN
         IF \E k \in lo..(c - 1) :
                s[k] = "\\" /\ ~Escaped(s, k, lo) /\ s[k + 1] = "\n"
         THEN 0
         ELSE c

\* fix_string_newlines: content.replace of newline, carriage return and tab by
\* their two-character escapes
EscapeBreak(c) ==
    IF c = "\n" THEN <<"\\", "n">>
    ELSE IF c = "\r" THEN <<"\\", "r">>
    ELSE IF c = "\t" THEN <<"\\", "t">>
    ELSE <<c>>

RECURSIVE EscapeBreaksIn(_, _, _)
EscapeBreaksIn(s, lo, hi) ==
    IF lo > hi THEN <<>>
    ELSE IF lo = hi THEN EscapeBreak(s[lo])
    ELSE LET mid == (lo + hi) \div 2 IN
         EscapeBreaksIn(s, lo, mid) \o EscapeBreaksIn(s, mid + 1, hi)

\* a double quote, ((?:[^Q\\]|\\.)*) with Q the double quote, a double quote
\*   ->  fix_string_newlines
StringNewlines(s, i) ==
    IF s[i] # "\"" THEN NoMatch
    ELSE LET e == StringEnd(s, i + 1) IN
         IF e = 0 THEN NoMatch
         ELSE Match(e + 1, <<"\"">> \o EscapeBreaksIn(s, i + 1, e - 1) \o <<"\"">>)

\* [\x00-\x1f\x7f-\x9f]  ->  a space
ControlToSpace(s) == [i \in 1..Len(s) |-> IF s[i] \in ControlChars THEN " " ELSE s[i]]

\* \s+  ->  a space
CollapseWS(s, i) ==
    IF s[i] \notin WS THEN NoMatch ELSE Match(SkipWhile(s, i, WS), <<" ">>)

\* The pattern of each re.sub pass, as the match that starts at position i
MatchAt(pass, s, i) ==
    CASE pass = "trailing_comma" -> TrailingComma(s, i)
      [] pass = "unquoted_key" -> UnquotedKey(s, i)
      [] pass = "quoted_value" -> SingleQuotedValue(s, i)
      [] pass = "quoted_first_item" -> SingleQuotedFirstItem(s, i)
      [] pass = "quoted_separator" -> SingleQuotedSeparator(s, i)
      [] pass = "quoted_last_item" -> SingleQuotedLastItem(s, i)
      [] pass = "string_newlines" -> StringNewlines(s, i)
      [] pass = "whitespace" -> CollapseWS(s, i)

\* re.sub(pattern, repl, s) for a pattern that matches no empty string: the
\* leftmost match at or after from is replaced, and the scan resumes after it
RECURSIVE Sub(_, _, _, _)
Sub(pass, s, from, out) ==
    LET S == {i \in from..Len(s) : MatchAt(pass, s, i).ok} IN
    IF S = {} THEN out \o SubSeq(s, from, Len(s))
    ELSE LET i == Min(S)
             m == MatchAt(pass, s, i)
         IN  Sub(pass, s, m.next, out \o SubSeq(s, from, i - 1) \o m.repl)

-----------------------------------------------------------------------------
(* json.loads (strict), for objects, arrays, strings, numbers without exponent
   and the three literals; string escapes other than \" \\ \/ \n \r \t do not
   occur in the model's texts and are rejected *)

JFail == [ok |-> FALSE, val |-> None, next |-> 0]
JOk(v, n) == [ok |-> TRUE, val |-> v, next |-> n]

Unescape(c) ==
    IF c = "n" THEN "\n" ELSE IF c = "r" THEN "\r" ELSE IF c = "t" THEN "\t" ELSE c

\* scanstring (strict): lo is the first position after the opening quote.
\* The string ends at the first unescaped quote; a control character or a
\* backslash before another character than those of Unescape is an error.
ScanString(s, lo) ==
    IF Closers(s, lo) = {} THEN JFail
    ELSE LET c == Min(Closers(s, lo))
             Opens(k) == s[k] = "\\" /\ ~Escaped(s, k, lo)
             kept == SelectSeq([k \in 1..(c - lo) |-> lo + k - 1], LAMBDA k : ~Opens(k))
         IN  IF \E k \in lo..(c - 1) :
                    \/ s[k] \in ControlChars
                    \/ Opens(k) /\ s[k + 1] \notin {"\"", "\\", "/", "n", "r", "t"}
             THEN JFail
             ELSE JOk([t |-> "str",
                       v |-> [j \in 1..Len(kept) |->
                                IF Escaped(s, kept[j], lo)
                                THEN Unescape(s[kept[j]])
                                ELSE s[kept[j]]]],
                      c + 1)

\* NUMBER_RE without the exponent: (-?(?:0|[1-9]\d*))(\.\d+)?
ScanNumber(s, i) ==
    LET a == IF s[i] = "-" THEN i + 1 ELSE i
        b == IF a <= Len(s) /\ s[a] = "0" THEN a + 1 ELSE SkipWhile(s, a, Digits)
        c == IF b + 1 <= Len(s) /\ s[b] = "." /\ s[b + 1] \in Digits
             THEN SkipWhile(s, b + 1, Digits)
             ELSE b
    IN  IF b > a THEN JOk([t |-> "num", v |-> SubSeq(s, i, c - 1)], c) ELSE JFail

Literals == {<<"t", "r", "u", "e">>, <<"f", "a", "l", "s", "e">>, <<"n", "u", "l", "l">>}

RECURSIVE ScanOnce(_, _), ScanMembers(_, _, _), ScanElements(_, _, _)

\* JSONObject after the opening brace: i is where a key must start
ScanMembers(s, i, acc) ==
    IF i > Len(s) \/ s[i] # "\"" THEN JFail
    ELSE LET key == ScanString(s, i + 1) IN
         IF ~key.ok THEN JFail
         ELSE LET c == SkipWhile(s, key.next, WS) IN
              IF c > Len(s) \/ s[c] # ":" THEN JFail
              ELSE LET val == ScanOnce(s, SkipWhile(s, c + 1, WS)) IN
                   IF ~val.ok THEN JFail
                   ELSE LET e == SkipWhile(s, val.next, WS)
                            more == Append(acc, [k |-> key.val.v, val |-> val.val])
                        IN  IF e > Len(s) THEN JFail
                            ELSE IF s[e] = "}" THEN JOk([t |-> "obj", v |-> more], e + 1)
                            ELSE IF s[e] = ","
                            THEN ScanMembers(s, SkipWhile(s, e + 1, WS), more)
                            ELSE JFail

\* JSONArray after the opening bracket: i is where an element must start
ScanElements(s, i, acc) ==
    LET val == ScanOnce(s, i) IN
    IF ~val.ok THEN JFail
    ELSE LET e == SkipWhile(s, val.next, WS)
             more == Append(acc, val.val)
         IN  IF e > Len(s) THEN JFail
             ELSE IF s[e] = "]" THEN JOk([t |-> "arr", v |-> more], e + 1)
             ELSE IF s[e] = "," THEN ScanElements(s, SkipWhile(s, e + 1, WS), more)
             ELSE JFail

\* scan_once: the value starting at i
ScanOnce(s, i) ==
    IF i > Len(s) THEN JFail
    ELSE IF s[i] = "\"" THEN ScanString(s, i + 1)
    ELSE IF s[i] = "{"
    THEN LET j == SkipWhile(s, i + 1, WS) IN
         IF j <= Len(s) /\ s[j] = "}" THEN JOk([t |-> "obj", v |-> <<>>], j + 1)
         ELSE ScanMembers(s, j, <<>>)
    ELSE IF s[i] = "["
    THEN LET j == SkipWhile(s, i + 1, WS) IN
         IF j <= Len(s) /\ s[j] = "]" THEN JOk([t |-> "arr", v |-> <<>>], j + 1)
         ELSE ScanElements(s, j, <<>>)
    ELSE IF s[i] \in Digits \cup {"-"} THEN ScanNumber(s, i)
    ELSE IF \E l \in Literals : StartsAt(s, i, l)
    THEN LET l == CHOOSE l \in Literals : StartsAt(s, i, l) IN
         JOk([t |-> "lit", v |-> l], i + Len(l))
    ELSE JFail

\* json.loads: one value, whitespace around it, nothing after it
JsonLoads(s) ==
    LET r == ScanOnce(s, SkipWhile(s, 1, WS)) IN
    IF r.ok /\ SkipWhile(s, r.next, WS) > Len(s) THEN r ELSE JFail

-----------------------------------------------------------------------------
(* _extract_json *)

ExtractJson(response) ==
    LET json_match == FenceMatch(response)
        s0 == Strip(IF json_match.found THEN json_match.group ELSE BraceMatch(response))
        s1 == DoubleClose(DoubleOpen(s0))
        s2 == Sub("trailing_comma", s1, 1, <<>>)
        s3 == Sub("unquoted_key", s2, 1, <<>>)
        s4 == Sub("quoted_value", s3, 1, <<>>)
        s5 == Sub("quoted_first_item", s4, 1, <<>>)
        s6 == Sub("quoted_separator", s5, 1, <<>>)
        s7 == Sub("quoted_last_item", s6, 1, <<>>)
        s8 == Sub("string_newlines", s7, 1, <<>>)
    IN  IF JsonLoads(s8).ok THEN s8
        ELSE Sub("whitespace", ControlToSpace(s8), 1, <<>>)

-----------------------------------------------------------------------------
(* Schemas (models.py) and the payloads a model response can decode to *)

T_empirical == <<"e", "m", "p", "i", "r", "i", "c", "a", "l">>
T_theoretical == <<"t", "h", "e", "o", "r", "e", "t", "i", "c", "a", "l">>
T_methods == <<"m", "e", "t", "h", "o", "d", "s">>
T_commentary == <<"c", "o", "m", "m", "e", "n", "t", "a", "r", "y">>
T_essay == <<"e", "s", "s", "a", "y">>

\* the values of the PaperType enum ("review" is also the needle of classify())
PaperType == {T_empirical, T_theoretical, review, T_methods, T_commentary}

\* Mutant of the PaperSummary schema: key_points without min_length
ValidPaperSummary_AnyLength(d) == d.paper_type \in PaperType

\* PaperSummary.model_validate: key_points has min_length 1, paper_type is a PaperType
ValidPaperSummary(d) ==
    /\ Len(d.key_points) >= 1
    /\ d.paper_type \in PaperType

\* Mutant of the Classification schema: confidence bounded by gt and lt
ValidClassification_Exclusive(d) ==
    /\ Len(d.collections) >= 1
    /\ d.confidence > 0
    /\ d.confidence < 100

\* Classification.model_validate: collections has min_length 1, 0.0 <= confidence <= 1.0
\* (confidence is held in hundredths)
ValidClassification(d) ==
    /\ Len(d.collections) >= 1
    /\ d.confidence >= 0
    /\ d.confidence <= 100

ModelValidate(d, model) ==
    IF model = "summarize" THEN ValidPaperSummary(d) ELSE ValidClassification(d)

SummaryPayloads ==
    { [summary |-> <<"s">>, key_points |-> kp, methods |-> <<"m">>, paper_type |-> pt] :
        kp \in {<<>>, <<(<<"a">>)>>}, pt \in {T_empirical, T_essay} }

\* tags, confidence (in hundredths) and reasoning of a classify payload; the
\* first and the last confidence are out of range
ClassifyRest ==
    { <<(<<>>), -1, "unclear">>,
      <<(<<>>), 0, "unclear">>,
      <<(<<"foundational", "offlist">>), 100, "clear">>,
      <<(<<"foundational", "offlist">>), 101, "clear">> }

ClassifyPayloads ==
    { [collections |-> cs, tags |-> r[1], confidence |-> r[2], reasoning |-> r[3]] :
        cs \in BoundedSeq(ModelNames, MaxModelCols), r \in ClassifyRest }

Payloads(st) == IF st = "summarize" THEN SummaryPayloads ELSE ClassifyPayloads

\* What one gateway call can produce: an HTTP/transport/envelope failure, a
\* content that is not a string (JSON null), a string that does not decode,
\* or a string that decodes to a payload.
Responses(st) ==
    { [kind |-> k, data |-> None] : k \in {"api_error", "nonstring", "garbage"} }
        \cup { [kind |-> "json", data |-> d] : d \in Payloads(st) }

-----------------------------------------------------------------------------
(* One attempt: _call_llm_once followed by _parse_response *)

ParseResponse(response, model) ==
    IF response.kind = "nonstring"
    THEN [status |-> "TypeError", error |-> "type", cause |-> "TypeError",
          record |-> None]
    ELSE IF response.kind = "json" /\ ModelValidate(response.data, model)
    THEN [status |-> "ok", error |-> "none", cause |-> "none", record |-> response.data]
    ELSE [status |-> "ClassifierError", error |-> "parse",
          cause |-> IF response.kind = "json" THEN "ValidationError"
                                              ELSE "JSONDecodeError",
          record |-> None]

AttemptResult(response, model) ==
    IF response.kind = "api_error"
    THEN [status |-> "ClassifierError", error |-> "api", cause |-> "gateway",
          record |-> None]
    ELSE ParseResponse(response, model)

\* The ClassifierError one attempt raises: its message prefix and the {e} it embeds
ErrorValue(r) ==
    [kind |-> r.error,
     msg |-> IF r.error = "api" THEN "LLM API call failed"
                                ELSE "Failed to parse LLM response",
     cause |-> r.cause]

\* Mutant of the except clause: the first error is kept
LastError_KeepFirst(prev, e) == IF prev = None THEN e ELSE prev

\* except ClassifierError as e: last_error = e
LastError(prev, e) == e

\* Mutant of the terminal error: the number of the attempts is left out
TerminalError_NoCount(m, e) == [type |-> "ClassifierError", attempts |-> 0, cause |-> e]

\* raise ClassifierError(f"Failed after {max_retries} attempts: {last_error}")
TerminalError(m, e) == [type |-> "ClassifierError", attempts |-> m, cause |-> e]

\* Mutants of the backoff delay: a linear delay, and a delay counted from 2**0
BackoffDelay_Linear(n) == 2 * n
BackoffDelay_FromZero(n) == 2^(n - 1)

\* wait_time = 2**attempt
BackoffDelay(n) == 2^n

-----------------------------------------------------------------------------
(* classify(): reconciliation of the validated record *)

\* Mutants of the catalog filter: no filtering, and a case-insensitive match
ValidatedCollections_Unfiltered(cs, cat) == cs
ValidatedCollections_IgnoreCase(cs, cat) ==
    SelectSeq(cs, LAMBDA c : \E i \in DOMAIN cat : Lower(cat[i]) = Lower(c))

ValidatedCollections(cs, cat) ==
    SelectSeq(cs, LAMBDA c : \E i \in DOMAIN cat : cat[i] = c)

\* Mutant of the fallback: "review" matched case-sensitively
ReviewLater_CaseSensitive(cat) ==
    IF \E i \in DOMAIN cat : Contains(review, cat[i])
    THEN cat[CHOOSE i \in DOMAIN cat :
                /\ Contains(review, cat[i])
                /\ \A j \in 1..(i - 1) : ~Contains(review, cat[j])]
    ELSE IF Len(cat) > 0 THEN cat[Len(cat)] ELSE Unknown

ReviewLater(cat) ==
    IF \E i \in DOMAIN cat : Contains(review, Lower(cat[i]))
    THEN cat[CHOOSE i \in DOMAIN cat :
                /\ Contains(review, Lower(cat[i]))
                /\ \A j \in 1..(i - 1) : ~Contains(review, Lower(cat[j]))]
    ELSE IF Len(cat) > 0 THEN cat[Len(cat)] ELSE Unknown

\* Mutant of the reconciliation: a substituted collection resets the tags
Reconcile_DropTags(c, cat) ==
    LET validated_collections == ValidatedCollections(c.collections, cat)
    IN  [collections |-> IF validated_collections = <<>>
                         THEN <<ReviewLater(cat)>>
                         ELSE validated_collections,
         tags |-> IF validated_collections = <<>> THEN <<>> ELSE c.tags,
         confidence |-> c.confidence,
         reasoning |-> c.reasoning]

Reconcile(c, cat) ==
    LET validated_collections == ValidatedCollections(c.collections, cat)
    IN  [collections |-> IF validated_collections = <<>>
                         THEN <<ReviewLater(cat)>>
                         ELSE validated_collections,
         tags |-> c.tags,
         confidence |-> c.confidence,
         reasoning |-> c.reasoning]

-----------------------------------------------------------------------------
(* The state machine of process() *)

\* process() has not been called
ProcIdle ==
    /\ collections = <<>>
    /\ max_retries = 1
    /\ pc = "idle"
    /\ stage = "none"
    /\ attempt = 0
    /\ wait_time = 0
    /\ errors = <<>>
    /\ calls = [s \in Stages |-> 0]
    /\ sleeps = [s \in Stages |-> <<>>]
    /\ summary = None
    /\ validated = None
    /\ outcome = "none"
    /\ raised_in = "none"
    /\ result = None
    /\ last_error = None
    /\ failure = None

\* _parse_response is not being followed on a text
TextIdle ==
    /\ sent = None
    /\ reply = None
    /\ json_str = None
    /\ parsed = None
    /\ xpc = "idle"

\* no loop iteration is being followed alone
AttemptIdle ==
    /\ target = "none"
    /\ content = None
    /\ tried = None

\* _call_llm_once has not been called
GatewayIdle ==
    /\ routing = [set |-> FALSE]
    /\ payload = None
    /\ http = None
    /\ call_result = None

\* no batch has been started
BatchIdle ==
    /\ mode = "none"
    /\ inbox = <<>>
    /\ batch_size = 1
    /\ dry_run = FALSE
    /\ add_summary_note = FALSE
    /\ running = FALSE
    /\ lpc = "idle"
    /\ batch = <<>>
    /\ cur = 0
    /\ results = <<>>
    /\ proc = <<>>
    /\ in_flight = {}
    /\ downloaded = {}
    /\ writes = {}

\* no daemon process has been started
DaemonIdle ==
    /\ pid_file = [exists |-> FALSE, text |-> <<>>]
    /\ interval = 0
    /\ daemons = <<>>

\* PDFParser.parse has not been called
ParserIdle ==
    /\ cache = <<>>
    /\ pdf_bytes = "none"
    /\ cache_key = <<>>
    /\ opened = FALSE
    /\ returned = None

Init ==
    /\ collections \in BoundedSeq(CatalogNames, MaxCatalog)
    /\ max_retries \in 1..MaxRetriesBound
    /\ pc = "idle"
    /\ stage = "none"
    /\ attempt = 0
    /\ wait_time = 0
    /\ errors = <<>>
    /\ calls = [s \in Stages |-> 0]
    /\ sleeps = [s \in Stages |-> <<>>]
    /\ summary = None
    /\ validated = None
    /\ outcome = "none"
    /\ raised_in = "none"
    /\ result = None
    /\ last_error = None
    /\ failure = None
    /\ TextIdle
    /\ AttemptIdle
    /\ GatewayIdle
    /\ BatchIdle
    /\ DaemonIdle
    /\ ParserIdle

\* Mutant of the loop start: the attempt counter carries over between stages
FirstAttempt_Carry(a) == IF a = 0 THEN 1 ELSE a

\* for attempt in range(1, max_retries + 1): the first value of the loop variable
FirstAttempt(a) == 1

\* range(1, max_retries + 1) is exhausted after the iteration with attempt = max_retries
LoopExhausted(a, m) == a >= m

\* Mutant of the sleep condition: the except clause sleeps after the final
\* attempt too
ShouldSleep_AfterLast(a, m) == a <= m

\* if attempt < max_retries: the except clause sleeps before the next iteration
ShouldSleep(a, m) == a < m

\* Mutant of the propagation: a failed classify hands back the summary alone
Propagate_Partial(st, s) ==
    IF st = "classify" THEN [summary |-> s, classification |-> None] ELSE None

\* process() has no try/except: an exception of either stage propagates, so
\* process() yields no value (the summary held in its local is dropped)
Propagate(st, s) == None

\* process() is called: summarize() enters _call_llm_with_parse
Process ==
    /\ UNCHANGED <<textvars, attemptvars, gatewayvars, batchvars, daemonvars, parservars>>
    /\ pc = "idle"
    /\ pc' = "call"
    /\ stage' = "summarize"
    /\ attempt' = FirstAttempt(attempt)
    /\ errors' = <<>>
    /\ last_error' = None
    /\ UNCHANGED <<collections, max_retries, wait_time, calls, sleeps, summary,
                   validated, outcome, raised_in, result, failure>>

\* An attempt whose response validates: the stage returns the record.
\* After summarize, classify() enters its own _call_llm_with_parse; after
\* classify, the record is reconciled and process() returns both records.
AttemptReturns ==
    /\ UNCHANGED <<textvars, attemptvars, gatewayvars, batchvars, daemonvars, parservars>>
    /\ pc = "call"
    /\ \E response \in Responses(stage) :
        LET r == AttemptResult(response, stage) IN
        /\ r.status = "ok"
        /\ calls' = [calls EXCEPT ![stage] = @ + 1]
        /\ IF stage = "summarize"
           THEN /\ summary' = r.record
                /\ stage' = "classify"
                /\ attempt' = FirstAttempt(attempt)
                /\ errors' = <<>>
                /\ last_error' = None
                /\ pc' = "call"
                /\ UNCHANGED <<validated, outcome, result>>
           ELSE /\ validated' = r.record
                /\ result' = [summary |-> summary,
                              classification |-> Reconcile(r.record, collections)]
                /\ outcome' = "returned"
                /\ pc' = "done"
                /\ UNCHANGED <<summary, stage, attempt, errors, last_error>>
    /\ UNCHANGED <<collections, max_retries, wait_time, sleeps, raised_in, failure>>

\* An attempt that raises ClassifierError (gateway failure, undecodable or
\* schema-invalid content): the except clause records it and sleeps when
\* attempt < max_retries; otherwise the loop goes on, or ends and the stage
\* raises its terminal ClassifierError.
AttemptFails ==
    /\ UNCHANGED <<textvars, attemptvars, gatewayvars, batchvars, daemonvars, parservars>>
    /\ pc = "call"
    /\ \E response \in Responses(stage) :
        LET r == AttemptResult(response, stage) IN
        /\ r.status = "ClassifierError"
        /\ errors' = Append(errors, r.error)
        /\ last_error' = LastError(last_error, ErrorValue(r))
    /\ calls' = [calls EXCEPT ![stage] = @ + 1]
    /\ IF ShouldSleep(attempt, max_retries)
       THEN /\ wait_time' = BackoffDelay(attempt)
            /\ pc' = "sleep"
            /\ UNCHANGED <<attempt, outcome, raised_in, result, failure>>
       ELSE IF LoopExhausted(attempt, max_retries)
       THEN /\ outcome' = "ClassifierError"
            /\ raised_in' = stage
            /\ failure' = TerminalError(max_retries, last_error')
            /\ result' = Propagate(stage, summary)
            /\ pc' = "done"
            /\ UNCHANGED <<attempt, wait_time>>
       ELSE /\ attempt' = attempt + 1
            /\ UNCHANGED <<pc, wait_time, outcome, raised_in, result, failure>>
    /\ UNCHANGED <<collections, max_retries, stage, sleeps, summary, validated>>

\* An attempt whose content is not a string: re.search raises TypeError, which
\* neither _parse_response nor the retry loop catches.
AttemptEscapes ==
    /\ UNCHANGED <<textvars, attemptvars, gatewayvars, batchvars, daemonvars, parservars>>
    /\ pc = "call"
    /\ \E response \in Responses(stage) :
        AttemptResult(response, stage).status = "TypeError"
    /\ calls' = [calls EXCEPT ![stage] = @ + 1]
    /\ outcome' = "TypeError"
    /\ raised_in' = stage
    /\ failure' = [type |-> "TypeError"]
    /\ result' = Propagate(stage, summary)
    /\ pc' = "done"
    /\ UNCHANGED <<collections, max_retries, stage, attempt, wait_time, errors,
                   sleeps, summary, validated, last_error>>

\* asyncio.sleep(wait_time) completes; the loop takes its next iteration, or
\* ends and the stage raises its terminal ClassifierError
Backoff ==
    /\ UNCHANGED <<textvars, attemptvars, gatewayvars, batchvars, daemonvars, parservars>>
    /\ pc = "sleep"
    /\ sleeps' = [sleeps EXCEPT ![stage] = Append(@, wait_time)]
    /\ IF LoopExhausted(attempt, max_retries)
       THEN /\ outcome' = "ClassifierError"
            /\ raised_in' = stage
            /\ failure' = TerminalError(max_retries, last_error)
            /\ result' = Propagate(stage, summary)
            /\ pc' = "done"
            /\ UNCHANGED attempt
       ELSE /\ attempt' = attempt + 1
            /\ pc' = "call"
            /\ UNCHANGED <<outcome, raised_in, result, failure>>
    /\ UNCHANGED <<collections, max_retries, stage, wait_time, errors, calls,
                   summary, validated, last_error>>

Next ==
    \/ Process
    \/ AttemptReturns
    \/ AttemptFails
    \/ AttemptEscapes
    \/ Backoff

Spec == Init /\ [][Next]_vars

-----------------------------------------------------------------------------
(* One iteration of the retry loop taken alone: the try body of
   _call_llm_with_parse on a given model and a given gateway outcome *)

\* confidence values in hundredths, on both sides of 0.0 and of 1.0
ConfidenceValues == {-100, -1, 0, 1, 50, 99, 100, 101, 200}

AttemptSummaryPayloads ==
    [summary : {<<"s">>},
     key_points : BoundedSeq({<<"a">>, <<"b">>}, MaxKeyPoints),
     methods : {<<"m">>},
     paper_type : PaperType \cup {T_essay}]

AttemptClassifyPayloads ==
    [collections : BoundedSeq(ModelNames, MaxModelCols),
     tags : {<<>>, <<"foundational">>},
     confidence : ConfidenceValues,
     reasoning : {"clear"}]

AttemptResponses(st) ==
    { [kind |-> k, data |-> None] : k \in {"api_error", "nonstring", "garbage"} }
        \cup { [kind |-> "json", data |-> d] :
                 d \in IF st = "summarize" THEN AttemptSummaryPayloads
                                           ELSE AttemptClassifyPayloads }

InitAttempt ==
    /\ ProcIdle
    /\ TextIdle
    /\ target \in Stages
    /\ content \in AttemptResponses(target)
    /\ tried = None
    /\ GatewayIdle
    /\ BatchIdle
    /\ DaemonIdle
    /\ ParserIdle

\* response = await self._call_llm_once(prompt); return self._parse_response(response, model)
\* ends by returning the record, by ClassifierError (caught by the loop: a failed
\* attempt) or by TypeError
TryAttempt ==
    /\ target \in Stages
    /\ tried = None
    /\ tried' = AttemptResult(content, target)
    /\ UNCHANGED <<procvars, textvars, target, content, gatewayvars, batchvars, daemonvars, parservars>>

NextAttempt == TryAttempt

SpecAttempt == InitAttempt /\ [][NextAttempt]_vars

-----------------------------------------------------------------------------
(* _parse_response on the text of a reply, for the PaperSummary model *)

K_summary == <<"s", "u", "m", "m", "a", "r", "y">>
K_key_points == <<"k", "e", "y", "_", "p", "o", "i", "n", "t", "s">>
K_methods == <<"m", "e", "t", "h", "o", "d", "s">>
K_paper_type == <<"p", "a", "p", "e", "r", "_", "t", "y", "p", "e">>

\* data = json.loads(json_str) yields a dict: a repeated key keeps its last value
HasField(obj, key) == \E i \in DOMAIN obj.v : obj.v[i].k = key

Field(obj, key) == obj.v[Max({i \in DOMAIN obj.v : obj.v[i].k = key})].val

IsStr(x) == x.t = "str"

IsStrList(x) == x.t = "arr" /\ \A i \in DOMAIN x.v : IsStr(x.v[i])

\* The fields of PaperSummary as read from the decoded value: summary, methods and
\* paper_type are strings, key_points is a list of strings
SummaryData(val) ==
    IF /\ val.t = "obj"
       /\ \A f \in {K_summary, K_methods, K_paper_type} :
              HasField(val, f) /\ IsStr(Field(val, f))
       /\ HasField(val, K_key_points)
       /\ IsStrList(Field(val, K_key_points))
    THEN [ok |-> TRUE,
          data |-> [summary |-> Field(val, K_summary).v,
                    key_points |-> [i \in DOMAIN Field(val, K_key_points).v |->
                                        Field(val, K_key_points).v[i].v],
                    methods |-> Field(val, K_methods).v,
                    paper_type |-> Field(val, K_paper_type).v]]
    ELSE [ok |-> FALSE]

\* json.JSONDecodeError: the exception object keeps the document it was given
DecodeError(js) == [type |-> "JSONDecodeError", doc |-> js]

\* pydantic's ValidationError: it reports on the decoded value
InvalidError(val) == [type |-> "ValidationError", input |-> val]

\* raise ClassifierError(f"Failed to parse LLM response: {e}") from e
ParseFailure(e) ==
    [status |-> "ClassifierError",
     error |-> [msg |-> "Failed to parse LLM response", cause |-> e]]

\* _parse_response(response, PaperSummary) once _extract_json has produced json_str:
\* json.loads, then model_validate; JSONDecodeError and ValueError become ClassifierError
ParseSummaryJson(js) ==
    LET data == JsonLoads(js) IN
    IF ~data.ok THEN ParseFailure(DecodeError(js))
    ELSE LET d == SummaryData(data.val) IN
         IF d.ok /\ ValidPaperSummary(d.data)
         THEN [status |-> "ok", data |-> d.data]
         ELSE ParseFailure(InvalidError(data.val))

(* Replies: a PaperSummary written as JSON inside a fenced block, between prose *)

JsonEscapeChar(c) ==
    CASE c = "\"" -> <<"\\", "\"">>
      [] c = "\\" -> <<"\\", "\\">>
      [] c = "\n" -> <<"\\", "n">>
      [] c = "\t" -> <<"\\", "t">>
      [] c = "\r" -> <<"\\", "r">>
      [] OTHER -> <<c>>

RECURSIVE JsonEscapeIn(_, _, _)
JsonEscapeIn(v, lo, hi) ==
    IF lo > hi THEN <<>>
    ELSE IF lo = hi THEN JsonEscapeChar(v[lo])
    ELSE LET mid == (lo + hi) \div 2
         IN  JsonEscapeIn(v, lo, mid) \o JsonEscapeIn(v, mid + 1, hi)

JsonDumpsStr(v) == <<"\"">> \o JsonEscapeIn(v, 1, Len(v)) \o <<"\"">>

RECURSIVE Join(_, _)
Join(parts, sep) ==
    IF parts = <<>> THEN <<>>
    ELSE IF Len(parts) = 1 THEN parts[1]
    ELSE parts[1] \o sep \o Join(Tail(parts), sep)

JsonDumpsList(vs) ==
    <<"[">> \o Join([i \in DOMAIN vs |-> JsonDumpsStr(vs[i])], <<",", " ">>) \o <<"]">>

Member(key, text) == JsonDumpsStr(key) \o <<":", " ">> \o text

Indent == <<"\n", " ", " ", " ", " ">>

Layouts == {"compact", "indented"}

\* The object on one line, or one member per line indented by four spaces
SummaryJson(d, layout) ==
    LET ms == << Member(K_summary, JsonDumpsStr(d.summary)),
                 Member(K_key_points, JsonDumpsList(d.key_points)),
                 Member(K_methods, JsonDumpsStr(d.methods)),
                 Member(K_paper_type, JsonDumpsStr(d.paper_type)) >>
    IN  IF layout = "compact"
        THEN <<"{">> \o Join(ms, <<",", " ">>) \o <<"}">>
        ELSE <<"{">> \o Indent \o Join(ms, <<",">> \o Indent) \o <<"\n", "}">>

ProseBefore ==
    <<"H", "e", "r", "e", "'", "s", " ", "t", "h", "e", " ", "a", "n", "a", "l", "y",
      "s", "i", "s", ":", "\n", "\n">>

ProseAfter ==
    <<"\n", "\n", "H", "o", "p", "e", " ", "t", "h", "i", "s", " ", "h", "e", "l", "p",
      "s", "!">>

FenceTags == {JsonTag, <<>>}

Fenced(json, tag) ==
    ProseBefore \o Fence \o tag \o <<"\n">> \o json \o <<"\n">> \o Fence \o ProseAfter

S_plain == <<"A", " ", "p", "a", "p", "e", "r", ".">>
S_apostrophe == <<"i", "t", "'", "s">>
S_escapes == <<"a", "\"", "b", "\\", "c", "\n">>
S_barekey == <<"x", ",", " ", "y", ":", " ", "z">>
S_comma == <<"a", ",", "]">>
S_quoted == <<"s", "a", "y", ":", " ", "'", "h", "i", "'">>
S_fence == <<"s", "e", "e", " ", Backtick, Backtick, Backtick, "x", Backtick, Backtick, Backtick>>
M_plain == <<"D", "L">>
M_braces == <<"{", "k", ":", " ", "v", "}">>
P_plain == <<"P", "1">>
P_list == <<"[", "'", "a", "'", ",", " ", "'", "b", "'", "]">>

SummaryTexts == {S_plain, S_apostrophe, S_escapes, S_barekey, S_comma, S_quoted, S_fence}
MethodsTexts == {M_plain, M_braces}
KeyPointTexts == {P_plain, P_list}

\* Valid PaperSummary values: at least one key point, a paper_type of the enumeration
SummaryValues ==
    [summary : SummaryTexts,
     key_points : BoundedSeq(KeyPointTexts, MaxKeyPoints) \ {<<>>},
     methods : MethodsTexts,
     paper_type : {T_empirical, review}]

InitExtract ==
    /\ ProcIdle
    /\ sent \in [data : SummaryValues, tag : FenceTags, layout : Layouts]
    /\ reply = Fenced(SummaryJson(sent.data, sent.layout), sent.tag)
    /\ json_str = None
    /\ parsed = None
    /\ xpc = "reply"
    /\ AttemptIdle
    /\ GatewayIdle
    /\ BatchIdle
    /\ DaemonIdle
    /\ ParserIdle

\* _parse_response(response, PaperSummary): _extract_json, json.loads, model_validate
ParseText ==
    /\ xpc = "reply"
    /\ json_str' = ExtractJson(reply)
    /\ parsed' = ParseSummaryJson(json_str')
    /\ xpc' = "parsed"
    /\ UNCHANGED <<procvars, sent, reply, attemptvars, gatewayvars, batchvars, daemonvars, parservars>>

NextExtract == ParseText

SpecExtract == InitExtract /\ [][NextExtract]_vars

-----------------------------------------------------------------------------
(* Replies with the formatting slips the repair passes are written for: keys
   without quotes, string values in single quotes, a comma before the closing
   brace *)

SingleQuoted(v) == <<"'">> \o v \o <<"'">>

SingleQuotedList(vs) ==
    <<"[">> \o Join([i \in DOMAIN vs |-> SingleQuoted(vs[i])], <<",", " ">>) \o <<"]">>

BareMember(key, text) == key \o <<":", " ">> \o text

LenientLayouts == {"lenient", "lenient_indented"}

\* The PaperSummary object with bare keys, single-quoted values and a trailing
\* comma, on one line or one member per line
LenientJson(d, layout) ==
    LET ms == << BareMember(K_summary, SingleQuoted(d.summary)),
                 BareMember(K_key_points, SingleQuotedList(d.key_points)),
                 BareMember(K_methods, SingleQuoted(d.methods)),
                 BareMember(K_paper_type, SingleQuoted(d.paper_type)) >>
    IN  IF layout = "lenient"
        THEN <<"{">> \o Join(ms, <<",", " ">>) \o <<",", "}">>
        ELSE <<"{">> \o Indent \o Join(ms, <<",">> \o Indent) \o <<",", "\n", "}">>

Wraps == {"bare", "fenced", "fenced_json"}

Wrapped(json, wrap) ==
    CASE wrap = "bare" -> json
      [] wrap = "fenced" -> Fenced(json, <<>>)
      [] wrap = "fenced_json" -> Fenced(json, JsonTag)

P_second == <<"P", "2">>

\* Valid PaperSummary values whose texts hold no quote, comma, colon or bracket
PlainSummaryValues ==
    [summary : {S_plain, M_plain},
     key_points : BoundedSeq({P_plain, P_second}, MaxKeyPoints) \ {<<>>},
     methods : {M_plain},
     paper_type : {T_empirical, review}]

InitLenient ==
    /\ ProcIdle
    /\ sent \in [data : PlainSummaryValues, wrap : Wraps, layout : LenientLayouts]
    /\ reply = Wrapped(LenientJson(sent.data, sent.layout), sent.wrap)
    /\ json_str = None
    /\ parsed = None
    /\ xpc = "reply"
    /\ AttemptIdle
    /\ GatewayIdle
    /\ BatchIdle
    /\ DaemonIdle
    /\ ParserIdle

SpecLenient == InitLenient /\ [][NextExtract]_vars

-----------------------------------------------------------------------------
(* _call_llm_once: the request body and the handling of the gateway's reply *)

\* llm_config.routing: None, or a ProviderRouting.  An optional field is a
\* sequence that is empty when the field is None; order and quantizations
\* are lists (None and the empty list are both falsy), sort is a string.
Routings ==
    [set : {FALSE}]
        \cup [set : {TRUE},
              order : {<<>>, <<"groq">>},
              allow_fallbacks : BOOLEAN,
              sort : {"", "price"},
              quantizations : {<<>>, <<"fp16">>},
              require_parameters : {<<>>, <<TRUE>>, <<FALSE>>}]

Empty == [k \in {} |-> TRUE]

Entry(cond, key, val) == IF cond THEN key :> val ELSE Empty

\* provider_config as filled from the routing block
RoutingEntries(r) ==
    IF ~r.set THEN Empty
    ELSE Entry(r.order # <<>>, "order", r.order)
            @@ Entry(TRUE, "allow_fallbacks", r.allow_fallbacks)
            @@ Entry(r.sort # "", "sort", r.sort)
            @@ Entry(r.quantizations # <<>>, "quantizations", r.quantizations)
            @@ Entry(r.require_parameters # <<>>, "require_parameters",
                     Head(r.require_parameters))

\* Mutant of the default: require_parameters is left as the routing block gave it
WithRequireParameters_AsConfigured(cfg) == cfg

\* if "require_parameters" not in provider_config: provider_config["require_parameters"] = True
WithRequireParameters(cfg) ==
    IF "require_parameters" \in DOMAIN cfg THEN cfg
    ELSE cfg @@ ("require_parameters" :> TRUE)

\* The JSON body of the request
BuildPayload(r) ==
    LET provider_config == WithRequireParameters(RoutingEntries(r))
        body == [model |-> "llm_config.model",
                 messages |-> <<[role |-> "user", content |-> "prompt"]>>,
                 max_tokens |-> "llm_config.max_tokens",
                 temperature |-> "llm_config.temperature",
                 response_format |-> [type |-> "json_object"]]
    IN  IF DOMAIN provider_config # {}
        THEN body @@ ("provider" :> provider_config)
        ELSE body

K_choices == <<"c", "h", "o", "i", "c", "e", "s">>
K_message == <<"m", "e", "s", "s", "a", "g", "e">>
K_content == <<"c", "o", "n", "t", "e", "n", "t">>
K_usage == <<"u", "s", "a", "g", "e">>

ObjectText(ms) == <<"{">> \o Join(ms, <<",", " ">>) \o <<"}">>

\* An envelope with choices[0].message.content, and the members that follow choices
EnvelopeText(content_text, more) ==
    ObjectText(<< Member(K_choices,
                         <<"[">> \o ObjectText(<< Member(K_message,
                              ObjectText(<< Member(K_content, content_text) >>)) >>)
                                 \o <<"]">>) >> \o more)

B_html ==
    <<"<", "h", "t", "m", "l", ">", "B", "a", "d", " ", "G", "a", "t", "e", "w", "a",
      "y", "<", "/", "h", "t", "m", "l", ">">>
B_error ==
    <<"{", "\"", "e", "r", "r", "o", "r", "\"", ":", " ", "\"", "x", "\"", "}">>
B_choices_empty ==
    <<"{", "\"", "c", "h", "o", "i", "c", "e", "s", "\"", ":", " ", "[", "]", "}">>
B_choices_null ==
    <<"{", "\"", "c", "h", "o", "i", "c", "e", "s", "\"", ":", " ", "n", "u", "l", "l",
      "}">>
B_no_message ==
    <<"{", "\"", "c", "h", "o", "i", "c", "e", "s", "\"", ":", " ", "[", "{", "}", "]",
      "}">>
B_message_null ==
    <<"{", "\"", "c", "h", "o", "i", "c", "e", "s", "\"", ":", " ", "[", "{", "\"",
      "m", "e", "s", "s", "a", "g", "e", "\"", ":", " ", "n", "u", "l", "l", "}", "]",
      "}">>
B_no_content ==
    <<"{", "\"", "c", "h", "o", "i", "c", "e", "s", "\"", ":", " ", "[", "{", "\"",
      "m", "e", "s", "s", "a", "g", "e", "\"", ":", " ", "{", "\"", "r", "o", "l", "e",
      "\"", ":", " ", "\"", "a", "s", "s", "i", "s", "t", "a", "n", "t", "\"", "}",
      "}", "]", "}">>
U_counts ==
    <<"{", "\"", "p", "r", "o", "m", "p", "t", "_", "t", "o", "k", "e", "n", "s", "\"",
      ":", " ", "3", "}">>
JsonNull == <<"n", "u", "l", "l">>
C_json ==
    <<"{", "\"", "t", "e", "s", "t", "\"", ":", " ", "\"", "r", "e", "s", "p", "o",
      "n", "s", "e", "\"", "}">>
C_plain == <<"h", "i">>
X_number == <<"5">>
X_list == <<"[", "\"", "a", "\"", "]">>

\* the usage member of an envelope: absent, an object, or null
UsageVariants == { <<>>, <<Member(K_usage, U_counts)>>, <<Member(K_usage, JsonNull)>> }

ContentStrings == {<<>>, C_plain, C_json}

\* Response bodies, each with what it was built as: without
\* choices[0].message.content, with a content string, or with a content that
\* is not a string
Bodies ==
    { [text |-> t, shape |-> "no_content", content |-> <<>>] :
        t \in {<<>>, B_html, <<"{", "}">>, B_error, B_choices_empty, B_choices_null,
               B_no_message, B_message_null, B_no_content} }
        \cup { [text |-> EnvelopeText(JsonDumpsStr(c), u), shape |-> "string",
                content |-> c] : c \in ContentStrings, u \in UsageVariants }
        \cup { [text |-> EnvelopeText(x, <<>>), shape |-> "not_string", content |-> <<>>] :
                 x \in {JsonNull, X_number, X_list} }

Statuses == {200, 201, 301, 404, 429, 500}

NoBody == [text |-> <<>>, shape |-> "no_content", content |-> <<>>]

\* What client.post can do: raise (connection error, timeout), or give a response
GatewayReplies ==
    { [kind |-> "transport", status |-> 0, body |-> NoBody] }
        \cup [kind : {"http"}, status : Statuses, body : Bodies]

\* x[key] for a decoded value: KeyError or TypeError unless x is a dict with the key
Subscript(x, key) ==
    IF x.ok /\ x.val.t = "obj" /\ HasField(x.val, key)
    THEN [ok |-> TRUE, val |-> Field(x.val, key)]
    ELSE [ok |-> FALSE, val |-> None]

\* x[0]: the first element of a list, the first character of a string
FirstItem(x) ==
    IF x.ok /\ x.val.t = "arr" /\ Len(x.val.v) >= 1
    THEN [ok |-> TRUE, val |-> x.val.v[1]]
    ELSE IF x.ok /\ x.val.t = "str" /\ Len(x.val.v) >= 1
    THEN [ok |-> TRUE, val |-> [t |-> "str", v |-> <<x.val.v[1]>>]]
    ELSE [ok |-> FALSE, val |-> None]

\* usage = data.get("usage", {}); usage.get(...): AttributeError unless a dict
UsageReadable(data) ==
    ~HasField(data, K_usage) \/ Field(data, K_usage).t = "obj"

GatewayFailure(e) ==
    [status |-> "ClassifierError", msg |-> "LLM API call failed", cause |-> e,
     value |-> None]

\* raise_for_status raises unless the status is 2xx
IsSuccess(status) == status >= 200 /\ status <= 299

\* The try block of _call_llm_once on one reply
HandleReply(r) ==
    IF r.kind = "transport" THEN GatewayFailure("Exception")
    ELSE IF ~IsSuccess(r.status) THEN GatewayFailure("HTTPStatusError")
    ELSE LET data == JsonLoads(r.body.text)
             content_value ==
                 Subscript(Subscript(FirstItem(Subscript(data, K_choices)), K_message),
                           K_content)
         IN  IF ~data.ok \/ ~content_value.ok \/ ~UsageReadable(data.val)
             THEN GatewayFailure("Exception")
             ELSE [status |-> "returned", msg |-> "", cause |-> "none",
                   value |-> content_value.val]

InitGateway ==
    /\ ProcIdle
    /\ TextIdle
    /\ AttemptIdle
    /\ routing \in Routings
    /\ payload = None
    /\ http = None
    /\ call_result = None
    /\ BatchIdle
    /\ DaemonIdle
    /\ ParserIdle

\* _call_llm_once: the request is built and posted, the reply is handled
CallLlmOnce ==
    /\ call_result = None
    /\ \E r \in GatewayReplies :
        /\ payload' = BuildPayload(routing)
        /\ http' = r
        /\ call_result' = HandleReply(r)
    /\ UNCHANGED <<procvars, textvars, attemptvars, routing, batchvars, daemonvars, parservars>>

NextGateway == CallLlmOnce

SpecGateway == InitGateway /\ [][NextGateway]_vars

-----------------------------------------------------------------------------
(* A batch: the process command of the CLI and Daemon.run_once.            *)
(* Each paper's classifier.process() is followed request by request: a     *)
(* gateway call is outstanding from the moment client.post is awaited      *)
(* until the attempt ends.                                                 *)

MaxInbox == 2             \* items in the inbox, and batch_size: at most this many
MaxBatchRetries == 2      \* max_retries of a batch ranges over 1..MaxBatchRetries

PROCESSED_TAG == "_paperflow_processed"
SKIPPED_TAG == "_paperflow_skipped"

\* ProcessingStatus
SKIPPED == "skipped"
FAILED == "failed"
COMPLETED == "completed"

\* What matters of a ZoteroItem: its tags, and what its PDF attachment does:
\* "none": no attachment; "bad": the download gives nothing or parse raises
\* PDFParseError; "broken": parse raises another exception (a cache entry that
\* is JSON but no ParsedPaper, a cache file that cannot be written); "ok"
InboxItems ==
    [pdf : {"none", "bad", "broken", "ok"}, tags : {{}}]
        \cup [pdf : {"ok"}, tags : {{PROCESSED_TAG}, {SKIPPED_TAG}}]

\* Mutant of is_processed: an item that was skipped is taken again
is_processed_ProcessedOnly(item) == PROCESSED_TAG \in item.tags

\* ZoteroClient.is_processed
is_processed(item) == PROCESSED_TAG \in item.tags \/ SKIPPED_TAG \in item.tags

RECURSIVE Unprocessed(_, _)
\* [item for item in items if not zotero.is_processed(item)], as item keys from k on
Unprocessed(items, k) ==
    IF k > Len(items) THEN <<>>
    ELSE IF is_processed(items[k]) THEN Unprocessed(items, k + 1)
    ELSE <<k>> \o Unprocessed(items, k + 1)

\* items_to_process[: batch_size]
Limit(keys, n) == SubSeq(keys, 1, IF Len(keys) < n THEN Len(keys) ELSE n)

\* process() has not been called for the item
NotStarted == [pc |-> "none", stage |-> "none", attempt |-> 0, error |-> "none",
               tags |-> {}]

\* process() has ended and its frame is gone: what is left is how it ended
\* ("returned" or "raised") and the exception type
Left(how, error) == [pc |-> how, stage |-> "none", attempt |-> 0, error |-> error,
                     tags |-> {}]

\* Classification.tags as the model wrote them: free text, passed through
LLMTagSets == {{"methods-focused"}, {PROCESSED_TAG}}

\* process() returned a classification with these tags
Returned(tags) == [Left("returned", "none") EXCEPT !.tags = tags]

\* ProcessingResult(item_key, status, error)
ProcessingResult(key, status, error) ==
    [item_key |-> key, status |-> status, error |-> error]

\* ZoteroClient.add_tags(item_key, tags) as seen by a later get_inbox_items;
\* of an item's tags the model keeps those is_processed reads
Tagged(items, key, tags) ==
    [items EXCEPT ![key].tags = @ \cup (tags \cap {PROCESSED_TAG, SKIPPED_TAG})]

\* Mutant of the apply block: the item is marked before its note is added
ApplyOps_MarkFirst(note) ==
    <<"add_to_collection", "add_tags", "mark_as_processed">>
        \o (IF note THEN <<"add_note">> ELSE <<>>)

\* The write calls of the apply block, in order
ApplyOps(note) ==
    <<"add_to_collection", "add_tags">>
        \o (IF note THEN <<"add_note">> ELSE <<>>)
        \o <<"mark_as_processed">>

\* The first n write calls of the apply block, for one item
Applied(key, ops, n) == {[item_key |-> key, op |-> ops[k]] : k \in 1..n}

\* The tags the first n write calls of the apply block gave the item
TagsApplied(ops, n, tags) ==
    UNION {IF ops[k] = "add_tags" THEN tags
           ELSE IF ops[k] = "mark_as_processed" THEN {PROCESSED_TAG}
           ELSE {} : k \in 1..n}

\* Mutant of the dry-run test: the changes are applied whatever dry_run says
ShouldApply_Always(dry) == TRUE

\* if not self.config.processing.dry_run
ShouldApply(dry) == ~dry

\* Mutant of the skip: the daemon tags an item without PDF as the CLI does
MarksSkipped_Both(m) == TRUE

\* Only the CLI calls mark_as_skipped for an item without PDF
MarksSkipped(m) == m = "cli"

\* Mutant of the await: the loop goes on while process() is still running
Awaited_NoWait(p) == TRUE

\* await self._classifier.process(parsed) / asyncio.run(classifier.process(parsed)):
\* the loop body resumes when process() has returned or raised
Awaited(p) == p.pc \in {"returned", "raised"}

batchconfig == <<mode, batch_size, dry_run, add_summary_note>>

InitBatch ==
    /\ collections = <<>>
    /\ max_retries \in 1..MaxBatchRetries
    /\ pc = "idle"
    /\ stage = "none"
    /\ attempt = 0
    /\ wait_time = 0
    /\ errors = <<>>
    /\ calls = [s \in Stages |-> 0]
    /\ sleeps = [s \in Stages |-> <<>>]
    /\ summary = None
    /\ validated = None
    /\ outcome = "none"
    /\ raised_in = "none"
    /\ result = None
    /\ last_error = None
    /\ failure = None
    /\ TextIdle
    /\ AttemptIdle
    /\ GatewayIdle
    /\ DaemonIdle
    /\ ParserIdle
    /\ mode \in {"cli", "daemon"}
    /\ inbox \in BoundedSeq(InboxItems, MaxInbox)
    /\ batch_size \in 1..MaxInbox
    /\ dry_run \in BOOLEAN
    /\ add_summary_note \in BOOLEAN
    /\ running = (mode = "daemon")
    /\ lpc = "idle"
    /\ batch = <<>>
    /\ cur = 0
    /\ results = <<>>
    /\ proc = [k \in DOMAIN inbox |-> NotStarted]
    /\ in_flight = {}
    /\ downloaded = {}
    /\ writes = {}

\* The batch starts: get_inbox_items, the is_processed filter and the batch_size
\* limit. A fetch that raises ends the batch with no result; so does an empty list.
\* The daemon starts a batch per cycle of while self.running.
RunOnce ==
    /\ \/ mode = "cli" /\ lpc = "idle"
       \/ mode = "daemon" /\ lpc \in {"idle", "returned", "raised"} /\ running
    /\ results' = <<>>
    /\ cur' = 0
    /\ downloaded' = {}
    /\ \E fetched \in BOOLEAN :
        IF fetched
        THEN /\ batch' = Limit(Unprocessed(inbox, 1), batch_size)
             /\ lpc' = IF batch' = <<>> THEN "returned" ELSE "loop"
        ELSE /\ batch' = <<>>
             /\ lpc' = IF mode = "cli" THEN "crashed" ELSE "returned"
    /\ proc' = [k \in DOMAIN inbox |-> NotStarted]
    /\ UNCHANGED <<procvars, textvars, attemptvars, gatewayvars, daemonvars, parservars>>
    /\ UNCHANGED <<batchconfig, inbox, running, in_flight, writes>>

\* for item in batch: the loop takes its next item. An item without PDF is
\* skipped (the CLI tags it unless dry_run). Otherwise the PDF is downloaded
\* and parsed: PDFParseError fails the item, any other exception leaves the
\* loop (run_once raises, the CLI command dies); when the paper is parsed,
\* process() is called and the loop body awaits it.
NextItem ==
    /\ lpc = "loop"
    /\ cur < Len(batch)
    /\ cur' = cur + 1
    /\ LET key == batch[cur + 1] IN
       CASE inbox[key].pdf = "none" ->
              /\ results' = Append(results, ProcessingResult(key, SKIPPED, "No PDF attachment"))
              /\ IF MarksSkipped(mode) /\ ShouldApply(dry_run)
                 THEN \E tagged \in BOOLEAN :
                        IF tagged
                        THEN /\ inbox' = Tagged(inbox, key, {SKIPPED_TAG})
                             /\ writes' = writes \cup {[item_key |-> key,
                                                        op |-> "mark_as_skipped"]}
                             /\ lpc' = "loop"
                        ELSE /\ lpc' = "crashed"
                             /\ UNCHANGED <<inbox, writes>>
                 ELSE UNCHANGED <<inbox, writes, lpc>>
              /\ UNCHANGED <<proc, downloaded>>
         [] inbox[key].pdf = "bad" ->
              /\ results' = Append(results, ProcessingResult(key, FAILED, "PDF parsing failed"))
              /\ downloaded' = downloaded \cup {key}
              /\ UNCHANGED <<inbox, writes, lpc, proc>>
         [] inbox[key].pdf = "broken" ->
              /\ downloaded' = downloaded \cup {key}
              /\ lpc' = IF mode = "cli" THEN "crashed" ELSE "raised"
              /\ UNCHANGED <<inbox, writes, results, proc>>
         [] OTHER ->
              /\ proc' = [proc EXCEPT ![key] = [pc |-> "call", stage |-> "summarize",
                                                attempt |-> FirstAttempt(0),
                                                error |-> "none", tags |-> {}]]
              /\ downloaded' = downloaded \cup {key}
              /\ lpc' = "await"
              /\ UNCHANGED <<inbox, writes, results>>
    /\ UNCHANGED <<procvars, textvars, attemptvars, gatewayvars, daemonvars, parservars>>
    /\ UNCHANGED <<batchconfig, running, batch, in_flight>>

\* _call_llm_once awaits client.post: the request is outstanding
IssueCall ==
    /\ \E key \in DOMAIN proc :
        /\ proc[key].pc = "call"
        /\ proc' = [proc EXCEPT ![key].pc = "in_flight"]
        /\ in_flight' = in_flight \cup {key}
    /\ UNCHANGED <<procvars, textvars, attemptvars, gatewayvars, daemonvars, parservars>>
    /\ UNCHANGED <<batchconfig, inbox, running, lpc, batch, cur, results, downloaded,
                   writes>>

\* The request is answered and the content validates: summarize hands over to
\* classify, classify lets process() return
CallReturns ==
    /\ \E key \in DOMAIN proc :
        /\ proc[key].pc = "in_flight"
        /\ in_flight' = in_flight \ {key}
        /\ IF proc[key].stage = "summarize"
           THEN proc' = [proc EXCEPT ![key].pc = "call", ![key].stage = "classify",
                                     ![key].attempt = FirstAttempt(@)]
           ELSE \E tags \in LLMTagSets : proc' = [proc EXCEPT ![key] = Returned(tags)]
    /\ UNCHANGED <<procvars, textvars, attemptvars, gatewayvars, daemonvars, parservars>>
    /\ UNCHANGED <<batchconfig, inbox, running, lpc, batch, cur, results, downloaded,
                   writes>>

\* The request fails, or is answered with content that does not parse: the
\* attempt raises ClassifierError; the loop sleeps, or the stage raises and
\* with it process()
CallFails ==
    /\ \E key \in DOMAIN proc :
        /\ proc[key].pc = "in_flight"
        /\ in_flight' = in_flight \ {key}
        /\ proc' = IF ShouldSleep(proc[key].attempt, max_retries)
                   THEN [proc EXCEPT ![key].pc = "sleep"]
                   ELSE IF LoopExhausted(proc[key].attempt, max_retries)
                   THEN [proc EXCEPT ![key] = Left("raised", "ClassifierError")]
                   ELSE [proc EXCEPT ![key].pc = "call", ![key].attempt = @ + 1]
    /\ UNCHANGED <<procvars, textvars, attemptvars, gatewayvars, daemonvars, parservars>>
    /\ UNCHANGED <<batchconfig, inbox, running, lpc, batch, cur, results, downloaded,
                   writes>>

\* The request is answered with content that is not a string: TypeError leaves
\* the stage and process()
CallEscapes ==
    /\ \E key \in DOMAIN proc :
        /\ proc[key].pc = "in_flight"
        /\ in_flight' = in_flight \ {key}
        /\ proc' = [proc EXCEPT ![key] = Left("raised", "TypeError")]
    /\ UNCHANGED <<procvars, textvars, attemptvars, gatewayvars, daemonvars, parservars>>
    /\ UNCHANGED <<batchconfig, inbox, running, lpc, batch, cur, results, downloaded,
                   writes>>

\* asyncio.sleep(wait_time) completes: the loop takes its next iteration, or
\* ends and the stage raises
SleepEnds ==
    /\ \E key \in DOMAIN proc :
        /\ proc[key].pc = "sleep"
        /\ proc' = IF LoopExhausted(proc[key].attempt, max_retries)
                   THEN [proc EXCEPT ![key] = Left("raised", "ClassifierError")]
                   ELSE [proc EXCEPT ![key].pc = "call", ![key].attempt = @ + 1]
    /\ UNCHANGED <<procvars, textvars, attemptvars, gatewayvars, daemonvars, parservars>>
    /\ UNCHANGED <<batchconfig, inbox, running, lpc, batch, cur, results, in_flight,
                   downloaded, writes>>

\* The loop body resumes after process(): an exception is caught and the item
\* fails; otherwise the changes are applied unless dry_run (a write call that
\* raises fails the item, the earlier ones stay) and the item completes
Resume ==
    /\ lpc = "await"
    /\ cur \in 1..Len(batch)
    /\ LET key == batch[cur]
           ops == ApplyOps(add_summary_note)
       IN
        /\ Awaited(proc[key])
        /\ IF proc[key].pc = "raised"
           THEN /\ results' = Append(results,
                                     ProcessingResult(key, FAILED, "Classification failed"))
                /\ UNCHANGED <<inbox, writes>>
           ELSE IF ~ShouldApply(dry_run)
           THEN /\ results' = Append(results, ProcessingResult(key, COMPLETED, "none"))
                /\ UNCHANGED <<inbox, writes>>
           ELSE \E n \in 0..Len(ops) :
                  /\ writes' = writes \cup Applied(key, ops, n)
                  /\ inbox' = Tagged(inbox, key, TagsApplied(ops, n, proc[key].tags))
                  /\ results' = Append(results,
                                       IF n = Len(ops)
                                       THEN ProcessingResult(key, COMPLETED, "none")
                                       ELSE ProcessingResult(key, FAILED, "Update failed"))
    /\ lpc' = "loop"
    /\ UNCHANGED <<procvars, textvars, attemptvars, gatewayvars, daemonvars, parservars>>
    /\ UNCHANGED <<batchconfig, running, batch, cur, proc, in_flight, downloaded>>

\* The loop is over: the results are returned (printed, by the CLI)
Return ==
    /\ lpc = "loop"
    /\ cur = Len(batch)
    /\ lpc' = "returned"
    /\ UNCHANGED <<procvars, textvars, attemptvars, gatewayvars, daemonvars, parservars>>
    /\ UNCHANGED <<batchconfig, inbox, running, batch, cur, results, proc, in_flight,
                   downloaded, writes>>

\* Daemon.stop(), also called by the handler of SIGTERM and SIGINT
stop ==
    /\ mode = "daemon"
    /\ running
    /\ running' = FALSE
    /\ UNCHANGED <<procvars, textvars, attemptvars, gatewayvars, daemonvars, parservars>>
    /\ UNCHANGED <<batchconfig, inbox, lpc, batch, cur, results, proc, in_flight,
                   downloaded, writes>>

NextBatch ==
    \/ RunOnce
    \/ NextItem
    \/ IssueCall
    \/ CallReturns
    \/ CallFails
    \/ CallEscapes
    \/ SleepEnds
    \/ Resume
    \/ Return
    \/ stop

SpecBatch == InitBatch /\ [][NextBatch]_vars

-----------------------------------------------------------------------------
(* The daemon's cycles when nothing fails: while self.running runs run_once
   again and again on the inbox as the cycles before left it. Not a dry run;
   every fetch, download, parse, LLM call and update succeeds; stop() is not
   called. *)

InitCycles ==
    /\ InitBatch
    /\ mode = "daemon"
    /\ ~dry_run
    /\ \A k \in DOMAIN inbox : inbox[k].pdf \in {"none", "ok"}

\* run_once starts and the fetch succeeds
CycleStarts == RunOnce /\ batch' = Limit(Unprocessed(inbox, 1), batch_size)

\* the update of the item succeeds
ResumeApplied == Resume /\ results'[Len(results')].status = COMPLETED

NextCycles ==
    \/ CycleStarts
    \/ NextItem
    \/ IssueCall
    \/ CallReturns
    \/ ResumeApplied
    \/ Return

\* The event loop runs the one task of the daemon: a step that can be taken
\* is taken (the gateway answers, the sleep between cycles ends)
SpecCycles == InitCycles /\ [][NextCycles]_vars /\ WF_vars(NextCycles)

-----------------------------------------------------------------------------
(* Daemon.run: the PID file, the polling loop and stop().                  *)
(* Two daemon processes are started against the same PID file; each takes  *)
(* the steps of run() one system call at a time.                           *)

MaxInterval == 2          \* interval ranges over 0..MaxInterval seconds

\* The daemon processes
Instances == {1, 2}

\* os.getpid() of a daemon process
PidOf(d) == 10 + d

\* A process of another user (init), running throughout
ForeignPids == {1}

DecimalDigits == <<"0", "1", "2", "3", "4", "5", "6", "7", "8", "9">>

RECURSIVE StrOf(_)
\* str(n), n >= 0
StrOf(n) ==
    IF n < 10 THEN <<DecimalDigits[n + 1]>>
    ELSE StrOf(n \div 10) \o <<DecimalDigits[(n % 10) + 1]>>

DigitValue(c) == CHOOSE k \in 0..9 : DecimalDigits[k + 1] = c

RECURSIVE DigitsValue(_)
DigitsValue(ds) ==
    IF ds = <<>> THEN 0
    ELSE 10 * DigitsValue(SubSeq(ds, 1, Len(ds) - 1)) + DigitValue(ds[Len(ds)])

\* int(text.strip()): an optional sign and decimal digits, else ValueError.
\* A number of twenty digits or more is kept as "big": it exceeds a C long.
IntOf(text) ==
    LET t == Strip(text)
        signed == t # <<>> /\ t[1] \in {"+", "-"}
        ds == IF signed THEN SubSeq(t, 2, Len(t)) ELSE t
    IN  IF ds = <<>> \/ \E i \in DOMAIN ds : ds[i] \notin Digits
        THEN [ok |-> FALSE, big |-> FALSE, val |-> 0]
        ELSE IF Len(ds) >= 20
        THEN [ok |-> TRUE, big |-> TRUE, val |-> 0]
        ELSE [ok |-> TRUE, big |-> FALSE,
              val |-> IF signed /\ t[1] = "-" THEN 0 - DigitsValue(ds)
                      ELSE DigitsValue(ds)]

\* The texts a PID file may hold when a daemon starts
F_empty == <<>>
F_garbage == <<"a", "b", "c">>
F_zero == <<"0">>
F_minus == <<"-", "1">>
F_foreign == <<"1", "\n">>
F_gone == <<"9", "9", "9">>
F_huge == <<"9", "9", "9", "9", "9", "9", "9", "9", "9", "9",
            "9", "9", "9", "9", "9", "9", "9", "9", "9", "9">>

PidFiles ==
    {[exists |-> FALSE, text |-> <<>>]}
        \cup {[exists |-> TRUE, text |-> t] :
                t \in {F_empty, F_garbage, F_zero, F_minus, F_foreign, F_gone, F_huge,
                       StrOf(PidOf(1))}}

\* The daemon process exists: it was started and run() has not ended.
\* (The process table is read through the variable daemons.)
Alive(d) == daemons[d].pc \notin {"refused", "raised", "exited"}

\* The PIDs of the running processes
RunningPids == {PidOf(d) : d \in {i \in Instances : Alive(i)}} \cup ForeignPids

\* os.kill(pid, 0): pid 0 and -1 address process groups and always find the
\* caller; another negative pid names a group that does not exist
Kill(v) ==
    IF v.big THEN "OverflowError"
    ELSE IF v.val \in {0, 0 - 1} THEN "ok"
    ELSE IF v.val < 0 THEN "ProcessLookupError"
    ELSE IF v.val \in ForeignPids THEN "PermissionError"
    ELSE IF v.val \in RunningPids THEN "ok"
    ELSE "ProcessLookupError"

\* The file holds the PID of a running process
HoldsRunningPid(f) ==
    /\ f.exists
    /\ LET v == IntOf(f.text) IN v.ok /\ ~v.big /\ v.val \in RunningPids

\* is_already_running after exists(): read_text, int, os.kill and the except
\* clause. "True", "False", or the exception that escapes.
Probe(f) ==
    LET v == IntOf(f.text) IN
    IF ~v.ok THEN "False"
    ELSE CASE Kill(v) = "ok" -> "True"
           [] Kill(v) \in {"ProcessLookupError", "PermissionError"} -> "False"
           [] OTHER -> Kill(v)

\* A daemon process whose run() has not been called
Started == [pc |-> "idle", running |-> FALSE, ticks |-> 0, wrote |-> FALSE,
            seen |-> "none", error |-> "none"]

InitDaemon ==
    /\ ProcIdle
    /\ TextIdle
    /\ AttemptIdle
    /\ GatewayIdle
    /\ BatchIdle
    /\ ParserIdle
    /\ pid_file \in PidFiles
    /\ interval \in 0..MaxInterval
    /\ daemons = [d \in Instances |-> Started]

\* is_already_running: self.pid_file.exists()
Exists(d) ==
    /\ daemons[d].pc = "idle"
    /\ daemons' = [daemons EXCEPT ![d].pc = IF pid_file.exists THEN "probe" ELSE "write",
                                  ![d].seen = IF pid_file.exists THEN "none" ELSE "free"]
    /\ UNCHANGED <<pid_file, interval>>
    /\ UNCHANGED <<procvars, textvars, attemptvars, gatewayvars, batchvars, parservars>>

\* is_already_running: the file is read and the process probed; run() raises
\* DaemonError when the answer is True. A file removed since exists() makes
\* read_text raise FileNotFoundError.
ReadAndProbe(d) ==
    /\ daemons[d].pc = "probe"
    /\ LET answer == IF pid_file.exists THEN Probe(pid_file) ELSE "FileNotFoundError"
           truth == IF HoldsRunningPid(pid_file) THEN "live" ELSE "free"
       IN  daemons' = [daemons EXCEPT
                         ![d].seen = truth,
                         ![d].pc = CASE answer = "True" -> "refused"
                                     [] answer = "False" -> "write"
                                     [] OTHER -> "raised",
                         ![d].error = CASE answer = "True" -> "DaemonError"
                                        [] answer = "False" -> "none"
                                        [] OTHER -> answer]
    /\ UNCHANGED <<pid_file, interval>>
    /\ UNCHANGED <<procvars, textvars, attemptvars, gatewayvars, batchvars, parservars>>

\* _write_pid_file: write_text(str(os.getpid()))
WritePid(d) ==
    /\ daemons[d].pc = "write"
    /\ pid_file' = [exists |-> TRUE, text |-> StrOf(PidOf(d))]
    /\ daemons' = [daemons EXCEPT ![d].pc = "setup", ![d].wrote = TRUE]
    /\ UNCHANGED interval
    /\ UNCHANGED <<procvars, textvars, attemptvars, gatewayvars, batchvars, parservars>>

\* _setup_signal_handlers, _init_components and self.running = True; or one of
\* the first two raises (signal.signal outside the main thread, a cache
\* directory that cannot be made). They run before the try block: the
\* exception leaves run() at once.
Initialize(d) ==
    /\ daemons[d].pc = "setup"
    /\ \E done \in BOOLEAN :
        daemons' = IF done
                   THEN [daemons EXCEPT ![d].pc = "loop", ![d].running = TRUE]
                   ELSE [daemons EXCEPT ![d].pc = "raised", ![d].error = "Exception"]
    /\ UNCHANGED <<pid_file, interval>>
    /\ UNCHANGED <<procvars, textvars, attemptvars, gatewayvars, batchvars, parservars>>

\* while self.running: a cycle starts; or the loop is left and the finally
\* clause removes the PID file
WhileTest(d) ==
    /\ daemons[d].pc = "loop"
    /\ IF daemons[d].running
       THEN /\ daemons' = [daemons EXCEPT ![d].pc = "cycle"]
            /\ UNCHANGED pid_file
       ELSE /\ daemons' = [daemons EXCEPT ![d].pc = "exited"]
            /\ pid_file' = [exists |-> FALSE, text |-> <<>>]
    /\ UNCHANGED interval
    /\ UNCHANGED <<procvars, textvars, attemptvars, gatewayvars, batchvars, parservars>>

\* await self.run_once() returns, or raises an Exception that is logged
CycleEnds(d) ==
    /\ daemons[d].pc = "cycle"
    /\ daemons' = [daemons EXCEPT ![d].pc = "wait", ![d].ticks = 0]
    /\ UNCHANGED <<pid_file, interval>>
    /\ UNCHANGED <<procvars, textvars, attemptvars, gatewayvars, batchvars, parservars>>

\* for _ in range(self.interval): break when not running, else sleep(1)
Tick(d) ==
    /\ daemons[d].pc = "wait"
    /\ IF daemons[d].ticks < interval /\ daemons[d].running
       THEN daemons' = [daemons EXCEPT ![d].ticks = @ + 1]
       ELSE daemons' = [daemons EXCEPT ![d].pc = "loop"]
    /\ UNCHANGED <<pid_file, interval>>
    /\ UNCHANGED <<procvars, textvars, attemptvars, gatewayvars, batchvars, parservars>>

\* stop(), called directly or by the handler of SIGTERM and SIGINT once
\* _setup_signal_handlers has installed it
Stop(d) ==
    /\ daemons[d].pc \in {"loop", "cycle", "wait"}
    /\ daemons[d].running
    /\ daemons' = [daemons EXCEPT ![d].running = FALSE]
    /\ UNCHANGED <<pid_file, interval>>
    /\ UNCHANGED <<procvars, textvars, attemptvars, gatewayvars, batchvars, parservars>>

NextDaemon ==
    \E d \in Instances :
        \/ Exists(d)
        \/ ReadAndProbe(d)
        \/ WritePid(d)
        \/ Initialize(d)
        \/ WhileTest(d)
        \/ CycleEnds(d)
        \/ Tick(d)
        \/ Stop(d)

SpecDaemon == InitDaemon /\ [][NextDaemon]_vars

-----------------------------------------------------------------------------
(* PDFParser.parse and its cache: one file per cache key. _cache_path names the
   file after the MD5 digest of the key; two keys of the model have two files. *)

CacheKeys == {"ITEM0001", "ITEM0002"}

\* str | None
NoText == [null |-> TRUE, s |-> <<>>]
Text(s) == [null |-> FALSE, s |-> s]

\* ParsedPaper(title, abstract, full_text, page_count, truncated)
ParsedPaper(t, a, f, n, tr) ==
    [title |-> t, abstract |-> a, full_text |-> f, page_count |-> n, truncated |-> tr]

\* The papers _parse_pdf extracts in the model: one with nothing found on a
\* single page, one whose texts hold a quote, a backslash and line breaks
Papers ==
    { ParsedPaper(NoText, NoText, <<>>, 1, FALSE),
      ParsedPaper(Text(<<"A", " ", "\"", "B", "\"">>), Text(<<"W", "e", "\t", "x">>),
                  <<"a", "\\", "b", "\n", "\n", "\"", "c">>, 12, TRUE) }

K_title == <<"t", "i", "t", "l", "e">>
K_abstract == <<"a", "b", "s", "t", "r", "a", "c", "t">>
K_full_text == <<"f", "u", "l", "l", "_", "t", "e", "x", "t">>
K_page_count == <<"p", "a", "g", "e", "_", "c", "o", "u", "n", "t">>
K_truncated == <<"t", "r", "u", "n", "c", "a", "t", "e", "d">>
JsonTrue == <<"t", "r", "u", "e">>
JsonFalse == <<"f", "a", "l", "s", "e">>

PaperKeys == {K_title, K_abstract, K_full_text, K_page_count, K_truncated}

JsonDumpsOpt(o) == IF o.null THEN JsonNull ELSE JsonDumpsStr(o.s)

JsonDumpsBool(b) == IF b THEN JsonTrue ELSE JsonFalse

\* Mutant of the dump: the texts are written between quotes as they are
DumpPaper_Unescaped(p) ==
    LET Raw(o) == IF o.null THEN JsonNull ELSE <<"\"">> \o o.s \o <<"\"">> IN
    <<"{">>
        \o Join(<< Member(K_title, Raw(p.title)),
                   Member(K_abstract, Raw(p.abstract)),
                   Member(K_full_text, Raw(Text(p.full_text))),
                   Member(K_page_count, StrOf(p.page_count)),
                   Member(K_truncated, JsonDumpsBool(p.truncated)) >>, <<",", " ">>)
        \o <<"}">>

\* json.dump(paper.model_dump(), f): the fields in declaration order
DumpPaper(p) ==
    <<"{">>
        \o Join(<< Member(K_title, JsonDumpsOpt(p.title)),
                   Member(K_abstract, JsonDumpsOpt(p.abstract)),
                   Member(K_full_text, JsonDumpsStr(p.full_text)),
                   Member(K_page_count, StrOf(p.page_count)),
                   Member(K_truncated, JsonDumpsBool(p.truncated)) >>, <<",", " ">>)
        \o <<"}">>

NoPaper == ParsedPaper(NoText, NoText, <<>>, 0, FALSE)

IsNull(v) == v.t = "lit" /\ v.v = JsonNull
IsBool(v) == v.t = "lit" /\ v.v \in {JsonTrue, JsonFalse}
IsInt(v) == v.t = "num" /\ \A i \in DOMAIN v.v : v.v[i] \in Digits

\* A JSON string or null as str | None
OptOf(v) == IF IsStr(v) THEN Text(v.v) ELSE NoText

\* ParsedPaper.model_validate(data) for the values json.load gives in the
\* model: all five fields are required, page_count is an int >= 1
ValidatePaper(val) ==
    IF val.t # "obj" THEN [ok |-> FALSE, paper |-> NoPaper]
    ELSE IF \E key \in PaperKeys : \A i \in DOMAIN val.v : val.v[i].k # key
    THEN [ok |-> FALSE, paper |-> NoPaper]
    ELSE LET t == Field(val, K_title)
             a == Field(val, K_abstract)
             f == Field(val, K_full_text)
             n == Field(val, K_page_count)
             tr == Field(val, K_truncated)
         IN  IF /\ IsStr(t) \/ IsNull(t)
                /\ IsStr(a) \/ IsNull(a)
                /\ IsStr(f)
                /\ IsInt(n)
                /\ IsBool(tr)
             THEN IF DigitsValue(n.v) >= 1
                  THEN [ok |-> TRUE,
                        paper |-> ParsedPaper(OptOf(t), OptOf(a), f.v, DigitsValue(n.v),
                                              tr.v = JsonTrue)]
                  ELSE [ok |-> FALSE, paper |-> NoPaper]
             ELSE [ok |-> FALSE, paper |-> NoPaper]

\* A cache file: absent, or its text and whether open(cache_path) can read it
NoFile == [exists |-> FALSE, text |-> <<>>, readable |-> FALSE]
File(text) == [exists |-> TRUE, text |-> text, readable |-> TRUE]

\* A file that exists and that open(cache_path) cannot read (OSError)
Unreadable(text) == [exists |-> TRUE, text |-> text, readable |-> FALSE]

\* A file whose write broke off: the first half of the text
Partial(text) == File(SubSeq(text, 1, Len(text) \div 2))

\* A JSON file that is no ParsedPaper
F_alien == File(<<"{", "}">>)

\* The files the cache directory may hold when parse is called: none, one
\* written by _save_cache, one whose write broke off, one of another format,
\* one that cannot be read
CacheFiles ==
    {NoFile, F_alien}
        \cup {File(DumpPaper(p)) : p \in Papers}
        \cup {Partial(DumpPaper(p)) : p \in Papers}
        \cup {Unreadable(DumpPaper(p)) : p \in Papers}

\* Mutant of _get_cached: the cache is never hit
GetCached_Miss(file) == [status |-> "None", paper |-> NoPaper]

\* _get_cached: None when there is no file, when it cannot be read (OSError)
\* or when it is no JSON (JSONDecodeError); model_validate raises
\* ValidationError, which is not caught
GetCached(file) ==
    IF ~file.exists \/ ~file.readable THEN [status |-> "None", paper |-> NoPaper]
    ELSE LET data == JsonLoads(file.text) IN
         IF ~data.ok THEN [status |-> "None", paper |-> NoPaper]
         ELSE LET r == ValidatePaper(data.val) IN
              IF r.ok THEN [status |-> "cached", paper |-> r.paper]
              ELSE [status |-> "ValidationError", paper |-> NoPaper]

\* _save_cache: open(cache_path, "w") raises OSError and leaves the file as
\* it is, or json.dump writes the file, or the write breaks off (OSError)
\* and leaves a part of it
SaveCache(file, p, how) ==
    CASE how = "saved" -> File(DumpPaper(p))
      [] how = "open_fails" -> file
      [] OTHER -> Partial(DumpPaper(p))

SaveOutcomes == {"saved", "open_fails", "write_fails"}

\* What pymupdf makes of the bytes: a paper, or an exception
PdfBytes == [ok : BOOLEAN, paper : Papers]

InitParse ==
    /\ ProcIdle
    /\ TextIdle
    /\ AttemptIdle
    /\ GatewayIdle
    /\ BatchIdle
    /\ DaemonIdle
    /\ cache \in [CacheKeys -> CacheFiles]
    /\ pdf_bytes = [ok |-> FALSE, paper |-> CHOOSE p \in Papers : p.page_count = 1]
    /\ cache_key = <<>>
    /\ opened = FALSE
    /\ returned = [status |-> "none", paper |-> NoPaper]

\* parse(pdf_bytes, cache_key): the cache is looked up when a key is given;
\* on a miss the bytes are parsed (any exception becomes PDFParseError) and
\* the result is saved under the key
parse ==
    \E bytes \in PdfBytes, key \in {<<>>} \cup {<<k>> : k \in CacheKeys},
       how \in SaveOutcomes :
        LET cached == IF key = <<>> THEN [status |-> "None", paper |-> NoPaper]
                      ELSE GetCached(cache[key[1]])
        IN
        /\ pdf_bytes' = bytes
        /\ cache_key' = key
        /\ IF cached.status = "cached"
           THEN /\ returned' = [status |-> "returned", paper |-> cached.paper]
                /\ opened' = FALSE
                /\ cache' = cache
           ELSE IF cached.status = "ValidationError"
           THEN /\ returned' = [status |-> "ValidationError", paper |-> NoPaper]
                /\ opened' = FALSE
                /\ cache' = cache
           ELSE /\ opened' = TRUE
                /\ IF ~bytes.ok
                   THEN /\ returned' = [status |-> "PDFParseError", paper |-> NoPaper]
                        /\ cache' = cache
                   ELSE IF key = <<>>
                   THEN /\ returned' = [status |-> "returned", paper |-> bytes.paper]
                        /\ cache' = cache
                   ELSE /\ cache' = [cache EXCEPT ![key[1]] = SaveCache(@, bytes.paper, how)]
                        /\ returned' = IF how = "saved"
                                       THEN [status |-> "returned", paper |-> bytes.paper]
                                       ELSE [status |-> "OSError", paper |-> NoPaper]
        /\ UNCHANGED <<procvars, textvars, attemptvars, gatewayvars, batchvars, daemonvars>>

NextParse == parse

SpecParse == InitParse /\ [][NextParse]_vars

-----------------------------------------------------------------------------
(* Properties of process(), checked under Spec *)

\* self.tags: the configured tag names (used only to render the prompt)
ConfiguredTags == {"foundational", "methods-focused", "empirical"}

InCatalog(c) == \E j \in DOMAIN collections : collections[j] = c

RECURSIVE Doubled(_)
Doubled(n) == IF n <= 1 THEN 2 ELSE 2 * Doubled(n - 1)

ExpectedDelays(k) == [i \in 1..k |-> Doubled(i)]

\* C1: the Classification returned by classify() has a non-empty collections
\* list whose every element is a configured collection name; with no
\* configured collection it is exactly <<"Unknown">>.
C1_CollectionsInCatalog ==
    outcome = "returned" =>
        LET cs == result.classification.collections IN
        /\ Len(cs) >= 1
        /\ IF collections = <<>>
           THEN cs = <<Unknown>>
           ELSE \A i \in DOMAIN cs : InCatalog(cs[i])

C1_Witness ==
    /\ outcome = "returned"
    /\ collections # <<>>
    /\ \E i \in DOMAIN validated.collections : ~InCatalog(validated.collections[i])
    /\ \E i \in DOMAIN validated.collections : InCatalog(validated.collections[i])

ReviewLetters == <<{"r", "R"}, {"e", "E"}, {"v", "V"}, {"i", "I"}, {"e", "E"}, {"w", "W"}>>

MatchesReview(n) ==
    \E k \in 0..(Len(n) - Len(ReviewLetters)) :
        \A j \in DOMAIN ReviewLetters : n[k + j] \in ReviewLetters[j]

C3_RetryThenSuccess ==
    /\ summary # None =>
          /\ ValidPaperSummary(summary)
          /\ calls["summarize"] <= max_retries
          /\ sleeps["summarize"] = ExpectedDelays(calls["summarize"] - 1)
    /\ outcome = "returned" =>
          /\ ValidClassification(validated)
          /\ Len(errors) < max_retries
          /\ calls["classify"] = Len(errors) + 1
          /\ sleeps["classify"] = ExpectedDelays(Len(errors))
          /\ pc = "done"

C3_Witness ==
    /\ outcome = "returned"
    /\ max_retries = 3
    /\ Len(errors) = 2
    /\ calls["classify"] = 3
    /\ sleeps["classify"] = <<2, 4>>

\* C4: a stage raises its terminal ClassifierError if and only if all
\* max_retries attempts failed, and then exactly max_retries gateway calls
\* have been made.
C4_TerminalIffExhausted ==
    pc = "done" =>
        /\ (outcome = "ClassifierError")
              <=> (outcome # "returned" /\ calls[stage] = max_retries)
        /\ outcome = "ClassifierError" => calls[raised_in] = max_retries

\* C5: gateway failures and parse failures advance the same attempt counter
\* and back off alike: whatever the kinds of the failures, the delay after the
\* n-th failed attempt is 2^n seconds and no stage makes more than max_retries
\* attempts.
C5_SharedBudget ==
    /\ \A s \in Stages : calls[s] <= max_retries
    /\ \A s \in Stages : \A n \in DOMAIN sleeps[s] : sleeps[s][n] = Doubled(n)
    /\ \A n \in DOMAIN errors : errors[n] \in {"api", "parse"}
    /\ pc = "sleep" =>
          /\ Len(errors) = attempt
          /\ wait_time = Doubled(Len(errors))
    /\ pc = "call" =>
          /\ attempt = Len(errors) + 1
          /\ calls[stage] = Len(errors)
          /\ Len(sleeps[stage]) = Len(errors)

C5_Witness ==
    /\ pc = "sleep"
    /\ errors = <<"api", "parse">>
    /\ wait_time = 4

\* C6: no classify gateway call is issued before summarize() has returned, none
\* at all when summarize() failed, and when either stage fails process()
\* raises and yields no value, not even the summary.
C6_NoPartialResult ==
    /\ (stage = "classify" \/ calls["classify"] > 0) => summary # None
    /\ raised_in = "summarize" => (summary = None /\ calls["classify"] = 0)
    /\ outcome \in {"ClassifierError", "TypeError"} => result = None
    /\ outcome = "none" => result = None
    /\ outcome = "returned" =>
          /\ result.summary = summary
          /\ result.summary # None
          /\ result.classification # None

C6_Witness ==
    /\ outcome = "ClassifierError"
    /\ raised_in = "classify"
    /\ summary # None
    /\ result = None

\* C7: the classify stage starts at attempt 1 with its own budget of
\* max_retries attempts and a backoff restarting at 2 seconds, however many
\* attempts summarize consumed; one process() issues at most 2 * max_retries
\* gateway calls.
C7_IndependentBudgets ==
    /\ (stage = "classify" /\ pc = "call") => attempt = calls["classify"] + 1
    /\ (outcome = "ClassifierError" /\ raised_in = "classify") =>
          calls["classify"] = max_retries
    /\ Len(sleeps["classify"]) >= 1 => sleeps["classify"][1] = 2
    /\ calls["summarize"] + calls["classify"] <= 2 * max_retries

C7_Witness ==
    /\ outcome = "ClassifierError"
    /\ raised_in = "classify"
    /\ max_retries >= 2
    /\ calls["summarize"] = max_retries
    /\ calls["classify"] = max_retries

\* C8: reconciliation changes only collections: tags, confidence and
\* reasoning of the returned Classification are those of the validated model
\* response, also when a fallback collection was substituted and also for
\* tags outside the configured tags.
C8_PassThrough ==
    outcome = "returned" =>
        /\ result.classification.tags = validated.tags
        /\ result.classification.confidence = validated.confidence
        /\ result.classification.reasoning = validated.reasoning

C8_Witness ==
    /\ outcome = "returned"
    /\ result.classification.collections # validated.collections
    /\ \E i \in DOMAIN validated.tags : validated.tags[i] \notin ConfiguredTags
    /\ result.classification.tags = validated.tags

RECURSIVE KeepInCatalog(_)
KeepInCatalog(cs) ==
    IF cs = <<>> THEN <<>>
    ELSE (IF InCatalog(Head(cs)) THEN <<Head(cs)>> ELSE <<>>) \o KeepInCatalog(Tail(cs))

-----------------------------------------------------------------------------
(* Properties of _parse_response on fenced replies, checked under SpecExtract *)

\* The text holds three consecutive backquotes
HasFence(s) == \E i \in DOMAIN s : StartsAt(s, i, Fence)

\* The text holds a comma followed, after optional whitespace, by } or ]
HasCommaBeforeCloser(s) ==
    \E i \in DOMAIN s :
        /\ s[i] = ","
        /\ LET j == SkipWhile(s, i + 1, WS)
           IN  j <= Len(s) /\ s[j] \in {"}", "]"}

\* The text holds { or a comma followed, after optional whitespace, by word
\* characters, optional whitespace and a colon
HasBareKeyShape(s) ==
    \E i \in DOMAIN s :
        /\ s[i] \in {"{", ","}
        /\ LET a == SkipWhile(s, i + 1, WS)
               b == SkipWhile(s, a, WordChars)
               j == SkipWhile(s, b, WS)
           IN  b > a /\ j <= Len(s) /\ s[j] = ":"

RECURSIVE PrevNonWS(_, _)
PrevNonWS(s, i) == IF i >= 1 /\ s[i] \in WS THEN PrevNonWS(s, i - 1) ELSE i

\* The text holds a single quote in the place of a string delimiter: after a colon
\* or [, before ], or before a comma that another single quote follows
HasQuoteAsDelimiter(s) ==
    \E i \in DOMAIN s :
        /\ s[i] = "'"
        /\ \/ LET p == PrevNonWS(s, i - 1) IN p >= 1 /\ s[p] \in {":", "["}
           \/ LET n == SkipWhile(s, i + 1, WS) IN n <= Len(s) /\ s[n] = "]"
           \/ /\ i + 1 <= Len(s)
              /\ s[i + 1] = ","
              /\ LET n == SkipWhile(s, i + 2, WS) IN n <= Len(s) /\ s[n] = "'"

\* The JSON text that was sent holds a shape that a repair pass rewrites
Rewritable(s) ==
    HasFence(s) \/ HasCommaBeforeCloser(s) \/ HasBareKeyShape(s) \/ HasQuoteAsDelimiter(s)

SentJson == SummaryJson(sent.data, sent.layout)

\* C10 as stated: for every valid PaperSummary written as JSON inside a fenced
\* block with prose around it, extracting and parsing gives back exactly the
\* field values that were written.
C10_RoundTrip ==
    xpc = "parsed" => parsed.status = "ok" /\ parsed.data = sent.data

\* The round trip does hold for JSON text that no repair pass rewrites: text with
\* no three consecutive backquotes, no comma before a closing bracket, no bare-key
\* shape and no single quote in the place of a string delimiter.
RoundTripUnrewritten ==
    (xpc = "parsed" /\ ~Rewritable(SentJson))
        => parsed.status = "ok" /\ parsed.data = sent.data

\* A tagged, indented reply whose summary holds an escaped quote, a backslash and
\* a newline has been parsed back to the value that was written
RoundTripUnrewrittenWitness ==
    /\ xpc = "parsed"
    /\ ~Rewritable(SentJson)
    /\ sent.tag = JsonTag
    /\ sent.layout = "indented"
    /\ sent.data.summary = S_escapes
    /\ Len(sent.data.key_points) = 2
    /\ parsed.status = "ok"
    /\ parsed.data = sent.data
    /\ json_str = SentJson

-----------------------------------------------------------------------------
(* Properties of _parse_response on replies with formatting slips, checked
   under SpecLenient *)

\* C11: a reply that is a schema-conforming object except for a trailing comma
\* before the closing brace, unquoted keys and single-quoted string values
\* parses after extraction and yields the intended field values.
C11_LenientParses ==
    xpc = "parsed" => parsed.status = "ok" /\ parsed.data = sent.data

\* The same with one key point only: the single-quoted list of one item is
\* repaired and the reply parses to the intended values.
LenientSingleItemParses ==
    (xpc = "parsed" /\ Len(sent.data.key_points) = 1)
        => parsed.status = "ok" /\ parsed.data = sent.data

-----------------------------------------------------------------------------
(* Properties of one loop iteration, checked under SpecAttempt *)

Decoded == tried # None /\ content.kind = "json"

\* C12: a classify payload with confidence below 0.0 or above 1.0 fails
\* validation, so the attempt fails with ClassifierError and returns no
\* Classification; with confidence exactly 0.0 or exactly 1.0 and all else
\* valid, validation succeeds and the attempt returns the record.
C12_ConfidenceBounds ==
    (Decoded /\ target = "classify") =>
        /\ (content.data.confidence < 0 \/ content.data.confidence > 100)
               => (tried.status = "ClassifierError" /\ tried.record = None)
        /\ (content.data.confidence \in {0, 100} /\ Len(content.data.collections) >= 1)
               => (tried.status = "ok" /\ tried.record = content.data)

\* A payload with confidence exactly 1.0 was returned by the attempt
C12_Witness ==
    /\ Decoded
    /\ target = "classify"
    /\ content.data.confidence = 100
    /\ Len(content.data.collections) = 2
    /\ tried.status = "ok"
    /\ tried.record = content.data

\* C13: a summarize payload with an empty key_points list and a classify
\* payload with an empty collections list are rejected: the attempt fails with
\* ClassifierError (which the loop retries) and returns no record, so no empty
\* collections list reaches the reconciliation.
C13_EmptyListsRejected ==
    Decoded =>
        /\ (target = "summarize" /\ content.data.key_points = <<>>)
               => (tried.status = "ClassifierError" /\ tried.record = None)
        /\ (target = "classify" /\ content.data.collections = <<>>)
               => (tried.status = "ClassifierError" /\ tried.record = None)
        /\ tried.status = "ok" =>
               IF target = "summarize" THEN Len(tried.record.key_points) >= 1
                                       ELSE Len(tried.record.collections) >= 1

\* A classify payload that is valid except for its empty collections list has
\* been rejected
C13_Witness ==
    /\ Decoded
    /\ target = "classify"
    /\ content.data.collections = <<>>
    /\ content.data.confidence = 50
    /\ tried.status = "ClassifierError"
    /\ tried.error = "parse"

-----------------------------------------------------------------------------
(* Properties of the terminal error, checked under Spec *)

\* C14: the terminal ClassifierError of a stage carries the number of attempts
\* (max_retries) and the error of the last failed attempt, not of an earlier one.
C14_TerminalErrorContent ==
    outcome = "ClassifierError" =>
        /\ failure.type = "ClassifierError"
        /\ failure.attempts = max_retries
        /\ failure.attempts = calls[raised_in]
        /\ Len(errors) = max_retries
        /\ failure.cause = last_error
        /\ failure.cause.kind = errors[Len(errors)]

\* A stage failed after three attempts whose first error came from the gateway
\* and whose last came from validation; the terminal error names three
\* attempts and the validation error
C14_Witness ==
    /\ outcome = "ClassifierError"
    /\ max_retries = 3
    /\ errors[1] = "api"
    /\ errors[3] = "parse"
    /\ failure.attempts = 3
    /\ failure.cause.cause = "ValidationError"
    /\ failure.cause.msg = "Failed to parse LLM response"

-----------------------------------------------------------------------------
(* Properties of the parse error, checked under SpecExtract *)

\* The texts an error of the parse step holds, its chained cause included
CarriedTexts(err) ==
    IF err.cause.type = "JSONDecodeError" THEN {err.cause.doc} ELSE {}

\* C15: when parsing or validating a response fails, the error of the parse
\* step carries both the candidate string of the extractor and the raw
\* response text.
C15_ErrorCarriesTexts ==
    (xpc = "parsed" /\ parsed.status = "ClassifierError") =>
        /\ json_str \in CarriedTexts(parsed.error)
        /\ reply \in CarriedTexts(parsed.error)

-----------------------------------------------------------------------------
(* Properties of _call_llm_once, checked under SpecGateway *)

GatewayError ==
    call_result.status = "ClassifierError" /\ call_result.msg = "LLM API call failed"

\* C16: one gateway call fails with ClassifierError (LLM API call failed) on
\* every status that is not 2xx, on every transport failure and on every
\* envelope without choices[0].message.content; when it returns, it returns
\* that content string, as it stands.
C16_GatewayContract ==
    call_result # None =>
        /\ http.kind = "transport" => GatewayError
        /\ (http.kind = "http" /\ ~(http.status \in 200..299)) => GatewayError
        /\ (http.kind = "http" /\ http.body.shape = "no_content") => GatewayError
        /\ call_result.status = "returned" =>
               /\ http.body.shape = "string"
               /\ call_result.value = [t |-> "str", v |-> http.body.content]

\* The part of C16 that holds: the failures named are gateway errors, and a
\* string that is returned is the content string of the envelope
GatewayFailuresAndVerbatim ==
    call_result # None =>
        /\ http.kind = "transport" => GatewayError
        /\ (http.kind = "http" /\ ~(http.status \in 200..299)) => GatewayError
        /\ (http.kind = "http" /\ http.body.shape = "no_content") => GatewayError
        /\ (call_result.status = "returned" /\ http.body.shape = "string") =>
               call_result.value = [t |-> "str", v |-> http.body.content]

\* the routing block sets require_parameters itself
ExplicitRequire == routing.set /\ routing.require_parameters # <<>>

\* C17: every request body carries provider.require_parameters; it is the
\* configured value when routing.require_parameters is set (true or false)
\* and true otherwise, also when there is no routing block.
C17_RequireParameters ==
    payload # None =>
        /\ "provider" \in DOMAIN payload
        /\ "require_parameters" \in DOMAIN payload["provider"]
        /\ payload["provider"]["require_parameters"] =
               IF ExplicitRequire THEN routing.require_parameters[1] ELSE TRUE

\* A request was sent without a routing block and carries
\* provider.require_parameters = true as the only routing entry
C17_Witness ==
    /\ payload # None
    /\ ~routing.set
    /\ DOMAIN payload["provider"] = {"require_parameters"}
    /\ payload["provider"]["require_parameters"] = TRUE

\* A request was sent with require_parameters set to false and carries false
C17_WitnessExplicitFalse ==
    /\ payload # None
    /\ ExplicitRequire
    /\ routing.require_parameters = <<FALSE>>
    /\ payload["provider"]["require_parameters"] = FALSE

-----------------------------------------------------------------------------
(* C18 *)

\* process() of the item has ended, or was never called (the item was skipped
\* or its PDF failed)
Ended(p) == p.pc \in {"none", "returned", "raised"}

\* process() of the item has issued its first gateway call, the first attempt
\* of summarize
Issued(p) ==
    /\ p.pc # "none"
    /\ ~(p.pc = "call" /\ p.stage = "summarize" /\ p.attempt = 1)

\* C18: at any moment at most one gateway call is in flight, and in a batch
\* (CLI process command and daemon run_once alike) a paper's first gateway call
\* is not issued before process() of every earlier paper of the batch has
\* returned or raised.
C18_OneCallInFlight ==
    /\ Cardinality(in_flight) <= 1
    /\ \A a, b \in 1..Len(batch) :
         (a < b /\ Issued(proc[batch[b]])) => Ended(proc[batch[a]])

\* The second paper's request is outstanding after the first paper's process()
\* made its calls and ended
C18_Witness ==
    /\ Len(batch) = 2
    /\ cur = 2
    /\ proc[batch[2]].pc = "in_flight"
    /\ batch[2] \in in_flight
    /\ Issued(proc[batch[1]])
    /\ Awaited(proc[batch[1]])

\* The same in a daemon whose stop() was called while the batch runs
C18_WitnessStopped ==
    /\ mode = "daemon"
    /\ ~running
    /\ cur = 2
    /\ in_flight = {batch[2]}
    /\ proc[batch[1]].pc = "raised"

-----------------------------------------------------------------------------
(* C19 *)

\* How the stage s ended, once it has: "returned", or the type of the
\* exception that left it; "running" while it has not (or was never entered)
StageEnd(s) ==
    IF raised_in = s THEN outcome
    ELSE IF s = "summarize" /\ stage = "classify" THEN "returned"
    ELSE IF s = "classify" /\ outcome = "returned" THEN "returned"
    ELSE "running"

\* C19: a stage invocation makes at most max_retries gateway calls and ends
\* either by returning a record or by raising ClassifierError, the latter only
\* after all max_retries calls were made: nothing ends a stage earlier or
\* in another way.
C19_StageEndsInBudget ==
    \A s \in Stages :
        /\ calls[s] <= max_retries
        /\ StageEnd(s) \in {"running", "returned", "ClassifierError"}
        /\ StageEnd(s) = "ClassifierError" => calls[s] = max_retries

\* What does hold: the budget is never exceeded, a ClassifierError leaves a
\* stage only after max_retries calls, and the one other way a stage ends is
\* the TypeError of a content that is no string
StageEndsInBudgetOrEscapes ==
    \A s \in Stages :
        /\ calls[s] <= max_retries
        /\ StageEnd(s) \in {"running", "returned", "ClassifierError", "TypeError"}
        /\ StageEnd(s) = "ClassifierError" => calls[s] = max_retries

\* A batch: stop() leaves process(), its stage and its outstanding request as
\* they are
StopEndsNoStage == [][stop => (proc' = proc /\ in_flight' = in_flight /\ lpc' = lpc)]_vars

-----------------------------------------------------------------------------
(* C20 *)

\* C20: backoff sleeps occur only between attempts. A stage never has slept
\* more often than it has called, a sleep is pending only when another attempt
\* follows, and a stage that ended after n gateway calls has slept exactly
\* n - 1 times. With max_retries = 1 a stage makes exactly one call, never
\* sleeps and fails on its first error.
C20_SleepsBetweenAttempts ==
    /\ \A s \in Stages :
        /\ Len(sleeps[s]) <= calls[s]
        /\ StageEnd(s) # "running" => Len(sleeps[s]) = calls[s] - 1
    /\ pc = "sleep" => attempt < max_retries /\ Len(sleeps[stage]) = calls[stage] - 1
    /\ pc = "call" => Len(sleeps[stage]) = calls[stage]
    /\ max_retries = 1 =>
        /\ pc # "sleep"
        /\ \A s \in Stages :
            /\ sleeps[s] = <<>>
            /\ StageEnd(s) # "running" => calls[s] = 1
        /\ errors # <<>> =>
            /\ errors = <<errors[1]>>
            /\ pc = "done"
            /\ outcome = "ClassifierError"
            /\ raised_in = stage

\* A stage that failed after three calls and two sleeps, the last call not
\* followed by a sleep
C20_Witness ==
    /\ max_retries = 3
    /\ outcome = "ClassifierError"
    /\ calls[raised_in] = 3
    /\ sleeps[raised_in] = <<2, 4>>
    /\ Len(errors) = 3

\* With max_retries = 1: one call, no sleep, failure on the first error
C20_WitnessSingle ==
    /\ max_retries = 1
    /\ outcome = "ClassifierError"
    /\ raised_in = "classify"
    /\ calls["classify"] = 1
    /\ sleeps["classify"] = <<>>
    /\ Len(errors) = 1

-----------------------------------------------------------------------------
(* C21 *)

\* The item keys of the results, in order
ResultKeys == [i \in DOMAIN results |-> results[i].item_key]

\* The run is over: run_once returned or raised, the CLI command ended
RunOver == lpc \in {"returned", "raised", "crashed"}

\* C21: with dry_run true no Zotero write call is made for any item, by the
\* CLI or by the daemon, and each item of the batch still gets its result:
\* when the run is over the results name the items of the batch, one each.
C21_DryRun ==
    dry_run =>
        /\ writes = {}
        /\ RunOver => ResultKeys = batch

\* What does hold: a dry run writes nothing, gives each item the loop has
\* handled its result, and a run that returns has one result per batch item
DryRunWritesNothing ==
    dry_run =>
        /\ writes = {}
        /\ \A k \in DOMAIN inbox : inbox[k].tags \in {{}, {PROCESSED_TAG}, {SKIPPED_TAG}}
        /\ lpc = "loop" => ResultKeys = SubSeq(batch, 1, cur)
        /\ lpc = "returned" => ResultKeys = batch

\* A dry run that returned after process() returned for both of its items
DryRunWritesNothingWitness ==
    /\ dry_run
    /\ lpc = "returned"
    /\ Len(batch) = 2
    /\ \A i \in 1..2 : results[i].status = COMPLETED

-----------------------------------------------------------------------------
(* C22 *)

\* C22: run() raises DaemonError exactly when the PID file exists and holds
\* the PID of a running process, and then it has not written the PID file nor
\* reached the polling loop; an absent, unparsable or stale PID file does not
\* block the start.
C22_RefusesIffRunning ==
    \A d \in Instances :
        daemons[d].seen # "none" =>
            /\ (daemons[d].pc = "refused") <=> (daemons[d].seen = "live")
            /\ daemons[d].pc = "refused" =>
                  daemons[d].error = "DaemonError" /\ ~daemons[d].wrote
            /\ daemons[d].seen = "free" => daemons[d].error = "none"

\* What does hold: a refused run() has raised DaemonError and written nothing,
\* and an absent file never blocks the start
RefusedWritesNothing ==
    \A d \in Instances :
        /\ daemons[d].pc = "refused" =>
              daemons[d].error = "DaemonError" /\ ~daemons[d].wrote
        /\ daemons[d].wrote => daemons[d].pc # "refused"

-----------------------------------------------------------------------------
(* C23 *)

\* run() of the daemon process has ended
RunEnded(p) == p.pc \in {"refused", "raised", "exited"}

\* C23: once run() has written its PID file, every exit from run() removes
\* the PID file; after stop() (or SIGTERM, SIGINT) the daemon starts no new
\* cycle and leaves the wait loop at its next tick.
C23_PidFileRemovedOnExit ==
    [][\A d \in Instances :
         /\ (daemons[d].wrote /\ ~RunEnded(daemons[d]) /\ RunEnded(daemons'[d]))
               => ~pid_file'.exists
         /\ (daemons[d].wrote /\ ~daemons[d].running /\ daemons[d].pc = "loop")
               => daemons'[d].pc # "cycle"
         /\ (~daemons[d].running /\ daemons[d].pc = "wait" /\ daemons'[d] # daemons[d])
               => daemons'[d].pc = "loop"]_vars

\* What does hold: run() removes the PID file when it leaves the polling
\* loop, which it does at the first while test after stop(); a stopped daemon
\* starts no cycle and leaves the wait loop at its next tick
LoopExitRemovesPidFile ==
    [][\A d \in Instances :
         /\ (daemons[d].pc = "loop" /\ RunEnded(daemons'[d])) => ~pid_file'.exists
         /\ (~daemons[d].running /\ daemons[d].pc = "loop" /\ daemons'[d] # daemons[d])
               => daemons'[d].pc = "exited"
         /\ (~daemons[d].running /\ daemons[d].pc = "wait" /\ daemons'[d] # daemons[d])
               => daemons'[d].pc = "loop"]_vars

-----------------------------------------------------------------------------
(* C28 *)

\* The daemon process is in the polling loop of run()
Polling(p) == p.pc \in {"loop", "cycle", "wait"}

\* C28: two daemon processes started against the same PID file are never both
\* in the polling loop, however their checks and PID-file writes interleave.
C28_OneDaemonPolls == Cardinality({d \in Instances : Polling(daemons[d])}) <= 1

-----------------------------------------------------------------------------
(* C24 *)

\* The item carries one of the two reserved tags
CarriesTag(item) == item.tags \cap {PROCESSED_TAG, SKIPPED_TAG} # {}

\* The keys of the inbox items that carry neither tag
Untagged(items) == {k \in DOMAIN items : ~CarriesTag(items[k])}

\* keys holds, in inbox order, the first n untagged items (all, if fewer)
FirstUntagged(keys, items, n) ==
    /\ Len(keys) <= n
    /\ Range(keys) \subseteq Untagged(items)
    /\ \A i, j \in DOMAIN keys : i < j => keys[i] < keys[j]
    /\ \A k \in Untagged(items) \ Range(keys) :
          /\ Len(keys) = n
          /\ \A i \in DOMAIN keys : keys[i] < k

\* The items a step downloads, sends to the LLM or writes to
Touched ==
    (downloaded' \ downloaded) \cup (in_flight' \ in_flight)
        \cup {w.item_key : w \in writes' \ writes}
        \cup {k \in DOMAIN proc : proc'[k] # proc[k] /\ proc'[k].pc # "none"}

\* C24: a run handles the first batch_size inbox items, in inbox order, that
\* carry neither tag, and no more; an item outside this batch, so every item
\* that was tagged when the run started, is not downloaded, sent to the LLM
\* or written in the run.
C24_BatchIsFirstUntagged ==
    [][/\ lpc' = "loop" /\ lpc \in {"idle", "returned", "raised"}
            => FirstUntagged(batch', inbox, batch_size)
       /\ lpc \in {"loop", "await"} => batch' = batch
       /\ Touched \subseteq Range(batch)
       /\ Len(results') <= Len(batch')
       /\ \A i \in DOMAIN results' : results'[i].item_key = batch'[i]]_vars

\* The CLI has run on an inbox whose first item was tagged: the batch was the
\* second item alone, which was written to
C24_Witness ==
    /\ mode = "cli"
    /\ lpc = "returned"
    /\ Len(inbox) = 2
    /\ SKIPPED_TAG \in inbox[1].tags
    /\ batch = <<2>>
    /\ 2 \in downloaded
    /\ \E w \in writes : w.item_key = 2

\* A run with batch_size 1 on two untagged items has handled the first only
C24_WitnessLimit ==
    /\ lpc = "returned"
    /\ Len(inbox) = 2
    /\ batch_size = 1
    /\ batch = <<1>>
    /\ downloaded = {1}
    /\ ~CarriesTag(inbox[2])
    /\ Len(results) = 1

-----------------------------------------------------------------------------
(* C25 *)

\* The write calls made for the item
WritesOf(key) == {w.op : w \in {v \in writes : v.item_key = key}}

\* Every write call that comes before the mark has been made for the item
UpdateComplete(key) ==
    /\ {"add_to_collection", "add_tags"} \subseteq WritesOf(key)
    /\ add_summary_note => "add_note" \in WritesOf(key)

\* C25: an item of the run is tagged _paperflow_processed only when its
\* collection additions, tag additions and (with add_summary_note) its note
\* were all written, the tag being the last write; an item reported FAILED
\* is not tagged processed by the run.
C25_ProcessedTagLast ==
    \A i \in DOMAIN results :
        LET key == results[i].item_key IN
            /\ PROCESSED_TAG \in inbox[key].tags =>
                  /\ results[i].status = COMPLETED
                  /\ UpdateComplete(key)
                  /\ "mark_as_processed" \in WritesOf(key)
            /\ results[i].status = FAILED => PROCESSED_TAG \notin inbox[key].tags

\* What does hold: mark_as_processed is called only after the other write
\* calls of the item returned, and never for an item reported FAILED
MarkIsLastCall ==
    \A i \in DOMAIN results :
        LET key == results[i].item_key IN
            /\ "mark_as_processed" \in WritesOf(key) =>
                  results[i].status = COMPLETED /\ UpdateComplete(key)
            /\ results[i].status = FAILED => "mark_as_processed" \notin WritesOf(key)

\* An item's update raised after add_tags, and the item is reported FAILED
MarkIsLastCallWitness ==
    \E i \in DOMAIN results :
        /\ results[i].status = FAILED
        /\ results[i].error = "Update failed"
        /\ "add_tags" \in WritesOf(results[i].item_key)

-----------------------------------------------------------------------------
(* C30 *)

\* The item keys of the results, in order
ResultSeq == [i \in DOMAIN results |-> results[i].item_key]

\* C30: run_once of the daemon never raises because of one item: a failure of
\* the item's download, parse, cache access, LLM stage or update gives that
\* item a FAILED result, the loop goes on, and run_once returns exactly one
\* result per batch item.
C30_FailureIsPerItem ==
    mode = "daemon" =>
        /\ lpc # "raised"
        /\ lpc = "returned" => ResultSeq = batch
        /\ \A i \in DOMAIN results :
              inbox[results[i].item_key].pdf \in {"bad", "broken"}
                  => results[i].status = FAILED

\* What does hold: a download that gives nothing, PDFParseError, any exception
\* of process() and any exception of the update give the item a FAILED result
\* and the loop goes on; a run_once that returns has one result per batch item
CaughtFailureIsPerItem ==
    mode = "daemon" =>
        /\ lpc = "returned" => ResultSeq = batch
        /\ lpc \in {"loop", "await"} => ResultSeq = SubSeq(batch, 1, Len(results))
        /\ \A i \in DOMAIN results :
              \/ inbox[results[i].item_key].pdf = "bad"
              \/ proc[results[i].item_key].pc = "raised"
              => results[i].status = FAILED

\* run_once returned after an item failed and a later item completed
CaughtFailureWitness ==
    /\ mode = "daemon"
    /\ lpc = "returned"
    /\ Len(results) = 2
    /\ results[1].status = FAILED
    /\ results[2].status = COMPLETED

-----------------------------------------------------------------------------
(* C26 *)

\* The cache file is the entry of paper p: a file that can be read and holds
\* what _save_cache writes for p
IsEntry(file, p) == file.exists /\ file.readable /\ file.text = DumpPaper(p)

\* The keys that have an entry in the cache c
Entries(c) == {k \in CacheKeys : \E p \in Papers : IsEntry(c[k], p)}

\* C26: a call of parse with a key that has a cache entry returns the cached
\* paper and does not parse the bytes; a parse that succeeds with a key
\* leaves an entry of the returned paper under the key (which the first part
\* makes a later call return unchanged); with cache_key None the cache is not
\* written and the outcome is that of parsing the bytes, whatever the cache
\* holds; a call that raises creates no entry.
C26_CacheRoundTrip ==
    [][LET called == <<pdf_bytes', cache_key', opened', returned', cache'>>
                        # <<pdf_bytes, cache_key, opened, returned, cache>>
       IN
       /\ \A k \in CacheKeys, p \in Papers :
             (cache_key' = <<k>> /\ IsEntry(cache[k], p)) =>
                 /\ returned' = [status |-> "returned", paper |-> p]
                 /\ ~opened'
                 /\ cache' = cache
       /\ \A k \in CacheKeys :
             (cache_key' = <<k>> /\ opened' /\ returned'.status = "returned") =>
                 /\ returned'.paper = pdf_bytes'.paper
                 /\ IsEntry(cache'[k], returned'.paper)
                 /\ \A o \in CacheKeys \ {k} : cache'[o] = cache[o]
       /\ (called /\ cache_key' = <<>>) =>
             /\ cache' = cache
             /\ opened'
             /\ returned' = IF pdf_bytes'.ok
                            THEN [status |-> "returned", paper |-> pdf_bytes'.paper]
                            ELSE [status |-> "PDFParseError", paper |-> NoPaper]
       /\ returned'.status # "returned" => Entries(cache') \subseteq Entries(cache)
       /\ returned'.status = "PDFParseError" => cache' = cache]_vars

\* parse returned the cached paper of its key, which is not the paper the
\* bytes hold, without parsing
C26_Witness ==
    /\ returned.status = "returned"
    /\ ~opened
    /\ cache_key # <<>>
    /\ pdf_bytes.ok
    /\ returned.paper # pdf_bytes.paper
    /\ returned.paper.page_count = 12

\* parse parsed the bytes and stored the paper under its key
C26_WitnessStored ==
    /\ returned.status = "returned"
    /\ opened
    /\ cache_key # <<>>
    /\ IsEntry(cache[cache_key[1]], returned.paper)
    /\ returned.paper.page_count = 12

\* parse failed and left no entry
C26_WitnessFailed ==
    /\ returned.status \in {"PDFParseError", "OSError"}
    /\ cache_key # <<>>
    /\ cache_key[1] \notin Entries(cache)

-----------------------------------------------------------------------------
(* C27, checked under Spec *)

\* C27: process() ends by returning or by raising ClassifierError, whatever
\* the gateway answered; no other exception type leaves it, and a stage that
\* failed had each failure retried until its max_retries calls were used.
C27_OnlyClassifierError ==
    /\ outcome \in {"none", "returned", "ClassifierError"}
    /\ (pc = "done" /\ outcome # "returned") =>
          /\ raised_in \in Stages
          /\ calls[raised_in] = max_retries
          /\ Len(sleeps[raised_in]) = max_retries - 1

\* What does hold: a failure that is a ClassifierError is retried until the
\* budget is used and surfaces as the terminal ClassifierError
ClassifierErrorIsRetried ==
    (pc = "done" /\ outcome = "ClassifierError") =>
        /\ raised_in \in Stages
        /\ calls[raised_in] = max_retries
        /\ Len(sleeps[raised_in]) = max_retries - 1

-----------------------------------------------------------------------------
(* C29, checked under SpecCycles *)

\* Item k has a PDF and carries neither reserved tag
Pending(k) == k \in DOMAIN inbox /\ inbox[k].pdf = "ok" /\ ~CarriesTag(inbox[k])

\* Item k was completed by the cycle and is tagged processed
Processed(k) ==
    /\ k \in DOMAIN inbox
    /\ PROCESSED_TAG \in inbox[k].tags
    /\ \E i \in DOMAIN results :
          results[i].item_key = k /\ results[i].status = COMPLETED

\* C29: when nothing fails, every inbox item that has a PDF and carries no
\* reserved tag is eventually completed and tagged processed, whatever else
\* the inbox holds and whatever batch_size is.
C29_EveryPdfItemProcessed == \A k \in 1..MaxInbox : Pending(k) ~> Processed(k)

\* What does hold: the same when every inbox item has a PDF
AllHavePdf == \A k \in DOMAIN inbox : inbox[k].pdf = "ok"

PdfInboxIsProcessed ==
    \A k \in 1..MaxInbox : (AllHavePdf /\ Pending(k)) ~> Processed(k)

\* A cycle completed the second item of the inbox after an earlier cycle
\* completed the first
PdfInboxWitness ==
    /\ AllHavePdf
    /\ batch_size = 1
    /\ batch = <<2>>
    /\ Processed(2)
    /\ PROCESSED_TAG \in inbox[1].tags

====
